---- MODULE Spec2Model ----
(***************************************************************************)
(* Trade-offer lifecycle of the VidEX server (src/index.ts): the routes    *)
(* POST /offers and PATCH /offers/:id as concurrent request handlers over   *)
(* the tables users, games and trade_offers, with the events they hand to  *)
(* publishEmailEvent.  Every `await sql` of a handler is one atomic step;   *)
(* the synchronous code that follows a statement belongs to the same step. *)
(* The events are followed through the Kafka producer (kafka-producer.ts)   *)
(* to the topic notifications.email and the email consumer                 *)
(* (src/email-consumer/index.ts).                                          *)
(***************************************************************************)
EXTENDS Integers, Sequences, FiniteSets, TLC

\* ------------------------------------------------------------------ bounds
MaxCalls == 2          \* requests accepted by the server in one behaviour

\* ------------------------------------------------------- enumerated inputs
Reqs == {1, 2}                         \* request handlers that can be in flight together
UserIds == {1, 2, 3}                   \* users.id
GameIds == {1, 2, 3}                   \* games.id values a request can name; 3 is no row
OfferIds == 1..2                       \* trade_offers.id values a request can name
NoUser == 0                            \* authenticate() returned null
Tokens == UserIds \cup {NoUser}
StatusInputs == {"accepted", "rejected", "pending"}   \* body.status of a PATCH

VARIABLES
  users,        \* table users: id -> row
  games,        \* table games: id -> row
  offers,       \* table trade_offers: id -> row
  nextOfferId,  \* SERIAL sequence of trade_offers.id
  clock,        \* wall clock read by new Date(); advances with each request
  pc,           \* position of each request handler
  call,         \* route, token and input of each request
  loc,          \* local variables of each request handler
  resp,         \* the Response each handler returned
  published,    \* publishEmailEvent calls made by each request, in order
  sends,        \* producer.send calls, each with the state of its promise
  topic,        \* messages of the topic notifications.email, in log order
  offset,       \* consumer: messages of the topic it has resolved
  committed,    \* consumer group: committed offset
  deliveries,   \* consumer: the eachMessage invocations, in order
  render        \* a compiled template, the bindings it is called with, its result

serverVars == <<users, games, offers, nextOfferId, clock, pc, call, loc, resp, published>>
producerVars == <<sends, topic>>
consumerVars == <<offset, committed, deliveries>>
vars == <<users, games, offers, nextOfferId, clock, pc, call, loc, resp, published,
          sends, topic, offset, committed, deliveries, render>>

\* ---------------------------------------------------------------- directory
InitUsers ==
  [u \in UserIds |->
     [id |-> u,
      name  |-> CASE u = 1 -> "Ann" [] u = 2 -> "Bob" [] OTHER -> "Cy",
      email |-> CASE u = 1 -> "ann@videx" [] u = 2 -> "bob@videx" [] OTHER -> "cy@videx"]]

InitGames ==
  [g \in {1, 2} |->
     [id |-> g,
      name |-> IF g = 1 THEN "Zelda" ELSE "Metroid",
      year |-> IF g = 1 THEN 1986 ELSE 1987,
      owner_id |-> g]]

\* The trade_offers table at the start: empty, or holding the pending offer
\* that user 1 made for game 2 with game 1
InitOffers ==
  { << >>,
    (1 :> [id |-> 1, requested_game_id |-> 2, offered_game_id |-> 1,
           offerer_id |-> 1, recipient_id |-> 2, status |-> "pending",
           created_at |-> 0, updated_at |-> 0]) }

\* SELECT * FROM table WHERE id = k : the list of matching rows
SelectById(table, k) ==
  IF k \in DOMAIN table THEN <<table[k]>> ELSE <<>>

\* ---------------------------------------------------------------- responses
NoBody == <<>>

errorResponse(code, message) ==
  [status |-> code, message |-> message, body |-> NoBody]

formatTradeOfferResponse(offer) ==
  [id |-> offer.id,
   requestedGameId |-> offer.requested_game_id,
   offeredGameId |-> offer.offered_game_id,
   offererId |-> offer.offerer_id,
   recipientId |-> offer.recipient_id,
   status |-> offer.status,
   createdAt |-> offer.created_at,
   updatedAt |-> offer.updated_at]

JsonResponse(code, body) ==
  [status |-> code, message |-> "", body |-> <<body>>]

NoResponse == [status |-> 0, message |-> "", body |-> NoBody]

\* Mutant of authenticate: a request without a valid token counts as user 1
authenticate_NullIsUserOne(token) == IF token = NoUser THEN 1 ELSE token

\* authenticate(req): the user id of a valid bearer token, else null
authenticate(token) == token

\* ------------------------------------------------------------------- events
publishEmailEvent(to, subject, body) ==
  [type |-> "email.send", to |-> to, subject |-> subject, body |-> body]

\* Handlebars templates of the offer lifecycle: the rendered text is the
\* template's fixed wording with the six bindings substituted
RenderOffer(template, offerer, recipient, offeredGame, requestedGame) ==
  [template |-> template,
   offererName |-> offerer.name,
   recipientName |-> recipient.name,
   offeredGameName |-> offeredGame.name,
   offeredGameYear |-> offeredGame.year,
   requestedGameName |-> requestedGame.name,
   requestedGameYear |-> requestedGame.year]

\* No template is being rendered
NotRendering ==
  [parts |-> << >>, template |-> << >>, bindings |-> << >>, state |-> "none", text |-> << >>]

\* ------------------------------------------------------------ handler state
EmptyLoc ==
  [requestedGames |-> <<>>, offeredGames |-> <<>>, offers |-> <<>>,
   offer |-> <<>>, offerers |-> <<>>, recipients |-> <<>>, now |-> 0]

\* A query parameter is << >> when the URL does not have it and <<value>> when
\* it does
NoFilter == [status |-> << >>, offererId |-> << >>, recipientId |-> << >>]

NoCall ==
  [route |-> "none", token |-> NoUser, requestedGameId |-> 0,
   offeredGameId |-> 0, offerId |-> 0, status |-> "none", filter |-> NoFilter]

ServerInit ==
  /\ users = InitUsers
  /\ games = InitGames
  /\ offers \in InitOffers
  /\ nextOfferId = Cardinality(DOMAIN offers) + 1
  /\ clock = 0
  /\ pc = [r \in Reqs |-> "idle"]
  /\ call = [r \in Reqs |-> NoCall]
  /\ loc = [r \in Reqs |-> EmptyLoc]
  /\ resp = [r \in Reqs |-> NoResponse]
  /\ published = [r \in Reqs |-> <<>>]

\* ... with no send made, an empty topic and a consumer that has read nothing
Init ==
  /\ ServerInit
  /\ sends = << >>
  /\ topic = << >>
  /\ offset = 0
  /\ committed = 0
  /\ deliveries = << >>
  /\ render = NotRendering

\* A handler returns: the response is recorded, the request is finished and
\* its local variables are gone
Return(r, response) ==
  /\ resp' = [resp EXCEPT ![r] = response]
  /\ pc' = [pc EXCEPT ![r] = "done"]
  /\ loc' = [loc EXCEPT ![r] = EmptyLoc]

\* The server accepts one more request
Arrive ==
  /\ clock < MaxCalls
  /\ clock' = clock + 1

\* A request for an offer route arrives and is given a free handler
Accept(r, c) ==
  /\ pc[r] \in {"idle", "done"}
  /\ Arrive
  /\ call' = [call EXCEPT ![r] = c]
  /\ published' = [published EXCEPT ![r] = <<>>]

\* ------------------------------------------------- Item/User Directory
\* DELETE FROM users WHERE id = u, with the ON DELETE CASCADE of games
\* (owner_id) and of trade_offers (offerer_id, recipient_id, both game ids)
DeleteUser(u) ==
  /\ Arrive
  /\ u \in DOMAIN users
  /\ users' = [k \in DOMAIN users \ {u} |-> users[k]]
  /\ LET keptGames == {g \in DOMAIN games : games[g].owner_id # u}
     IN /\ games' = [g \in keptGames |-> games[g]]
        /\ offers' = [o \in {x \in DOMAIN offers :
                               /\ offers[x].offerer_id # u
                               /\ offers[x].recipient_id # u
                               /\ offers[x].requested_game_id \in keptGames
                               /\ offers[x].offered_game_id \in keptGames}
                        |-> offers[o]]
  /\ UNCHANGED <<nextOfferId, pc, call, loc, resp, published>>

\* DELETE FROM games WHERE id = g, with the ON DELETE CASCADE of trade_offers
DeleteGame(g) ==
  /\ Arrive
  /\ g \in DOMAIN games
  /\ games' = [k \in DOMAIN games \ {g} |-> games[k]]
  /\ offers' = [o \in {x \in DOMAIN offers :
                         /\ offers[x].requested_game_id # g
                         /\ offers[x].offered_game_id # g}
                  |-> offers[o]]
  /\ UNCHANGED <<users, nextOfferId, pc, call, loc, resp, published>>

\* ------------------------------------------------------- POST /offers
\* Mutant of OwnsOfferedGame: any owned game may be offered
OwnsOfferedGame_AnyOwner(offeredGame, authenticatedUserId) ==
  offeredGame.owner_id \in UserIds

\* line 599: the offered game must belong to the authenticated user
OwnsOfferedGame(offeredGame, authenticatedUserId) ==
  offeredGame.owner_id = authenticatedUserId

\* Mutant of IsOwnGame: a self-trade is never detected
IsOwnGame_NeverRefused(requestedGame, authenticatedUserId) ==
  requestedGame.owner_id \notin UserIds

\* Mutant of IsOwnGame: the comparison is inverted
IsOwnGame_Inverted(requestedGame, authenticatedUserId) ==
  requestedGame.owner_id # authenticatedUserId

\* line 603: the requested game belongs to the authenticated user (self-trade)
IsOwnGame(requestedGame, authenticatedUserId) ==
  requestedGame.owner_id = authenticatedUserId

\* Mutant of CreateChecks: the self-trade check comes before the ownership check
CreateChecks_SelfTradeFirst(requestedGame, offeredGame, authenticatedUserId) ==
  IF IsOwnGame(requestedGame, authenticatedUserId)
    THEN errorResponse(400, "Cannot create trade offer for your own game")
  ELSE IF ~OwnsOfferedGame(offeredGame, authenticatedUserId)
    THEN errorResponse(403, "Forbidden: You can only offer games you own")
  ELSE NoResponse

\* lines 599-605: the checks that follow the two game lookups, in code order
CreateChecks(requestedGame, offeredGame, authenticatedUserId) ==
  IF ~OwnsOfferedGame(offeredGame, authenticatedUserId)
    THEN errorResponse(403, "Forbidden: You can only offer games you own")
  ELSE IF IsOwnGame(requestedGame, authenticatedUserId)
    THEN errorResponse(400, "Cannot create trade offer for your own game")
  ELSE NoResponse

\* Mutant of NewOfferRow: the row is stored as already accepted
NewOfferRow_CreatedAccepted(id, requestedGameId, offeredGameId, authenticatedUserId, requestedGame, now) ==
  [id |-> id,
   requested_game_id |-> requestedGameId,
   offered_game_id |-> offeredGameId,
   offerer_id |-> authenticatedUserId,
   recipient_id |-> requestedGame.owner_id,
   status |-> "accepted",
   created_at |-> now,
   updated_at |-> now]

\* Mutant of NewOfferRow: the id is derived from the two games instead of
\* being taken from the sequence
NewOfferRow_IdFromGames(id, requestedGameId, offeredGameId, authenticatedUserId, requestedGame, now) ==
  [id |-> requestedGameId + offeredGameId,
   requested_game_id |-> requestedGameId,
   offered_game_id |-> offeredGameId,
   offerer_id |-> authenticatedUserId,
   recipient_id |-> requestedGame.owner_id,
   status |-> "pending",
   created_at |-> now,
   updated_at |-> now]

\* Mutant of NewOfferRow: the recipient is taken from the caller, not from the
\* owner of the requested game
NewOfferRow_RecipientFromCaller(id, requestedGameId, offeredGameId, authenticatedUserId, requestedGame, now) ==
  [id |-> id,
   requested_game_id |-> requestedGameId,
   offered_game_id |-> offeredGameId,
   offerer_id |-> authenticatedUserId,
   recipient_id |-> authenticatedUserId,
   status |-> "pending",
   created_at |-> now,
   updated_at |-> now]

\* lines 609-613: the row INSERTed for a new offer
NewOfferRow(id, requestedGameId, offeredGameId, authenticatedUserId, requestedGame, now) ==
  [id |-> id,
   requested_game_id |-> requestedGameId,
   offered_game_id |-> offeredGameId,
   offerer_id |-> authenticatedUserId,
   recipient_id |-> requestedGame.owner_id,
   status |-> "pending",
   created_at |-> now,
   updated_at |-> now]

\* Mutant of CreateEvents: the confirmation to the offerer is not published
CreateEvents_OneEvent(offerers, recipients, offeredGame, requestedGame) ==
  IF Len(offerers) > 0 /\ Len(recipients) > 0
    THEN << publishEmailEvent(recipients[1].email,
                              "You've received a trade offer!",
                              RenderOffer("offerReceivedTemplate", offerers[1],
                                          recipients[1], offeredGame, requestedGame)) >>
    ELSE << >>

\* Mutant of CreateEvents: the confirmation is addressed to the recipient too
CreateEvents_BothToRecipient(offerers, recipients, offeredGame, requestedGame) ==
  IF Len(offerers) > 0 /\ Len(recipients) > 0
    THEN << publishEmailEvent(recipients[1].email,
                              "You've received a trade offer!",
                              RenderOffer("offerReceivedTemplate", offerers[1],
                                          recipients[1], offeredGame, requestedGame)),
            publishEmailEvent(recipients[1].email,
                              "Your trade offer has been sent!",
                              RenderOffer("offerCreatedConfirmationTemplate", offerers[1],
                                          recipients[1], offeredGame, requestedGame)) >>
    ELSE << >>

\* lines 620-646: the publishEmailEvent calls of a created offer
CreateEvents(offerers, recipients, offeredGame, requestedGame) ==
  IF Len(offerers) > 0 /\ Len(recipients) > 0
    THEN << publishEmailEvent(recipients[1].email,
                              "You've received a trade offer!",
                              RenderOffer("offerReceivedTemplate", offerers[1],
                                          recipients[1], offeredGame, requestedGame)),
            publishEmailEvent(offerers[1].email,
                              "Your trade offer has been sent!",
                              RenderOffer("offerCreatedConfirmationTemplate", offerers[1],
                                          recipients[1], offeredGame, requestedGame)) >>
    ELSE << >>

\* lines 573-591: requireAuth, then SELECT of the requested game
PostBegin(r, token, requestedGameId, offeredGameId) ==
  /\ Accept(r, [NoCall EXCEPT !.route = "POST /offers", !.token = token,
                              !.requestedGameId = requestedGameId,
                              !.offeredGameId = offeredGameId])
  /\ LET requestedGames == SelectById(games, requestedGameId)
     IN IF authenticate(token) = NoUser
          THEN Return(r, errorResponse(401, "Unauthorized: Please login first"))
        ELSE IF Len(requestedGames) = 0
          THEN Return(r, errorResponse(404, "Requested game not found"))
        ELSE /\ loc' = [loc EXCEPT ![r] = [EmptyLoc EXCEPT !.requestedGames = requestedGames]]
             /\ pc' = [pc EXCEPT ![r] = "post_offered"]
             /\ resp' = [resp EXCEPT ![r] = NoResponse]
  /\ UNCHANGED <<users, games, offers, nextOfferId>>

\* lines 593-607: SELECT of the offered game, the ownership checks, new Date()
PostSelectOffered(r) ==
  /\ pc[r] = "post_offered"
  /\ LET offeredGames == SelectById(games, call[r].offeredGameId)
         requestedGame == loc[r].requestedGames[1]
         authenticatedUserId == authenticate(call[r].token)
     IN IF Len(offeredGames) = 0
          THEN Return(r, errorResponse(404, "Offered game not found"))
        ELSE IF CreateChecks(requestedGame, offeredGames[1], authenticatedUserId) # NoResponse
          THEN Return(r, CreateChecks(requestedGame, offeredGames[1], authenticatedUserId))
        ELSE /\ loc' = [loc EXCEPT ![r].offeredGames = offeredGames, ![r].now = clock]
             /\ pc' = [pc EXCEPT ![r] = "post_insert"]
             /\ UNCHANGED resp
  /\ UNCHANGED <<users, games, offers, nextOfferId, clock, call, published>>

\* lines 609-615 and 649-651: INSERT ... RETURNING *; a foreign-key violation
\* throws and the catch block answers 400
PostInsert(r) ==
  /\ pc[r] = "post_insert"
  /\ LET authenticatedUserId == authenticate(call[r].token)
         requestedGame == loc[r].requestedGames[1]
         row == NewOfferRow(nextOfferId, call[r].requestedGameId, call[r].offeredGameId,
                            authenticatedUserId, requestedGame, loc[r].now)
         foreignKeysHold == /\ row.requested_game_id \in DOMAIN games
                            /\ row.offered_game_id \in DOMAIN games
                            /\ row.offerer_id \in DOMAIN users
                            /\ row.recipient_id \in DOMAIN users
     IN IF foreignKeysHold
          THEN /\ offers' = [k \in DOMAIN offers \cup {row.id} |->
                               IF k = row.id THEN row ELSE offers[k]]
               /\ loc' = [loc EXCEPT ![r].offer = <<row>>]
               /\ pc' = [pc EXCEPT ![r] = "post_offerers"]
               /\ UNCHANGED resp
          ELSE /\ Return(r, errorResponse(400, "Invalid input"))
               /\ UNCHANGED offers
  /\ nextOfferId' = nextOfferId + 1
  /\ UNCHANGED <<users, games, clock, call, published>>

\* line 617: SELECT name, email FROM users WHERE id = offer.offerer_id
PostSelectOfferers(r) ==
  /\ pc[r] = "post_offerers"
  /\ loc' = [loc EXCEPT ![r].offerers = SelectById(users, loc[r].offer[1].offerer_id)]
  /\ pc' = [pc EXCEPT ![r] = "post_recipients"]
  /\ UNCHANGED <<users, games, offers, nextOfferId, clock, call, resp, published>>

\* lines 618-648: SELECT of the recipient, the two publishEmailEvent calls, 201
PostSelectRecipients(r) ==
  /\ pc[r] = "post_recipients"
  /\ LET recipients == SelectById(users, loc[r].offer[1].recipient_id)
     IN published' = [published EXCEPT ![r] =
                           CreateEvents(loc[r].offerers, recipients,
                                        loc[r].offeredGames[1], loc[r].requestedGames[1])]
  /\ Return(r, JsonResponse(201, formatTradeOfferResponse(loc[r].offer[1])))
  /\ UNCHANGED <<users, games, offers, nextOfferId, clock, call>>

\* --------------------------------------------------- PATCH /offers/:id
\* TradeOfferUpdateSchema.safeParse(body).success: status is one of the two
\* terminal values
TradeOfferUpdateSchema(status) ==
  status \in {"accepted", "rejected"}

\* Mutant of IsRecipient: either participant of the offer may update it
IsRecipient_AnyParticipant(offer, authenticatedUserId) ==
  offer.recipient_id = authenticatedUserId \/ offer.offerer_id = authenticatedUserId

\* line 683: only the stored recipient may update the offer
IsRecipient(offer, authenticatedUserId) ==
  offer.recipient_id = authenticatedUserId

\* Mutant of IsPending: only an accepted offer is refused
IsPending_OnlyAcceptedRefused(offer) ==
  offer.status # "accepted"

\* line 687: only a pending offer may be updated
IsPending(offer) ==
  offer.status = "pending"

\* Mutant of UpdateChecks: the body is validated before the offer is looked at
UpdateChecks_SchemaFirst(offer, authenticatedUserId, status) ==
  IF ~TradeOfferUpdateSchema(status)
    THEN errorResponse(400, "Invalid option: expected one of accepted|rejected")
  ELSE IF ~IsRecipient(offer, authenticatedUserId)
    THEN errorResponse(403, "Forbidden: Only the recipient can update this offer")
  ELSE IF ~IsPending(offer)
    THEN errorResponse(400, "Only pending offers can be updated")
  ELSE NoResponse

\* lines 683-696: the checks on the offer row read by the handler, in code order
UpdateChecks(offer, authenticatedUserId, status) ==
  IF ~IsRecipient(offer, authenticatedUserId)
    THEN errorResponse(403, "Forbidden: Only the recipient can update this offer")
  ELSE IF ~IsPending(offer)
    THEN errorResponse(400, "Only pending offers can be updated")
  ELSE IF ~TradeOfferUpdateSchema(status)
    THEN errorResponse(400, "Invalid option: expected one of accepted|rejected")
  ELSE NoResponse

\* Mutant of UpdateOfferRows: the UPDATE also resets created_at
UpdateOfferRows_ResetsCreatedAt(table, offerId, status, now) ==
  [k \in DOMAIN table |->
     IF k = offerId
       THEN [table[k] EXCEPT !.status = status, !.updated_at = now, !.created_at = now]
       ELSE table[k]]

\* Mutant of UpdateOfferRows: accepting an offer rejects the other pending
\* offers that ask for the same game
UpdateOfferRows_RejectsCompeting(table, offerId, status, now) ==
  [k \in DOMAIN table |->
     IF k = offerId
       THEN [table[k] EXCEPT !.status = status, !.updated_at = now]
     ELSE IF /\ status = "accepted"
             /\ offerId \in DOMAIN table
             /\ table[k].status = "pending"
             /\ table[k].requested_game_id = table[offerId].requested_game_id
       THEN [table[k] EXCEPT !.status = "rejected", !.updated_at = now]
     ELSE table[k]]

\* Mutant of UpdateOfferRows: a rejected offer is deleted instead of updated
UpdateOfferRows_DropsRejected(table, offerId, status, now) ==
  IF status = "rejected"
    THEN [k \in DOMAIN table \ {offerId} |-> table[k]]
  ELSE [k \in DOMAIN table |->
          IF k = offerId
            THEN [table[k] EXCEPT !.status = status, !.updated_at = now]
            ELSE table[k]]

\* lines 701-706: UPDATE trade_offers SET status, updated_at WHERE id = offerId
UpdateOfferRows(table, offerId, status, now) ==
  [k \in DOMAIN table |->
     IF k = offerId
       THEN [table[k] EXCEPT !.status = status, !.updated_at = now]
       ELSE table[k]]

\* Mutant of UpdateEvents: each notification is guarded by the lookup of its
\* own addressee
UpdateEvents_GuardedSeparately(updatedOffer, offerers, recipients, requestedGames, offeredGames) ==
  IF updatedOffer.status \in {"accepted", "rejected"}
    THEN (IF Len(offerers) > 0
            THEN << publishEmailEvent(offerers[1].email,
                                      IF updatedOffer.status = "accepted"
                                        THEN "Your trade offer was accepted!"
                                      ELSE "Your trade offer was declined",
                                      updatedOffer.id) >>
          ELSE << >>)
         \o (IF Len(recipients) > 0
               THEN << publishEmailEvent(recipients[1].email,
                                         IF updatedOffer.status = "accepted"
                                           THEN "You accepted a trade offer!"
                                         ELSE "You declined a trade offer",
                                         updatedOffer.id) >>
             ELSE << >>)
  ELSE << >>

\* Mutant of UpdateEvents: a rejection is announced to the offerer with the
\* accepted wording
UpdateEvents_RejectedAsAccepted(updatedOffer, offerers, recipients, requestedGames, offeredGames) ==
  IF Len(offerers) > 0 /\ Len(recipients) > 0
     /\ Len(requestedGames) > 0 /\ Len(offeredGames) > 0
     /\ updatedOffer.status \in {"accepted", "rejected"}
    THEN << publishEmailEvent(offerers[1].email,
                              "Your trade offer was accepted!",
                              RenderOffer("offerAcceptedTemplate", offerers[1],
                                          recipients[1], offeredGames[1], requestedGames[1])),
            publishEmailEvent(recipients[1].email,
                              IF updatedOffer.status = "accepted"
                                THEN "You accepted a trade offer!"
                                ELSE "You declined a trade offer",
                              RenderOffer(IF updatedOffer.status = "accepted"
                                            THEN "offerAcceptedRecipientTemplate"
                                            ELSE "offerRejectedRecipientTemplate",
                                          offerers[1], recipients[1],
                                          offeredGames[1], requestedGames[1])) >>
    ELSE << >>

\* lines 713-769: the publishEmailEvent calls of a status update
UpdateEvents(updatedOffer, offerers, recipients, requestedGames, offeredGames) ==
  IF updatedOffer.status = "accepted"
    THEN IF Len(offerers) > 0 /\ Len(recipients) > 0
            /\ Len(requestedGames) > 0 /\ Len(offeredGames) > 0
           THEN << publishEmailEvent(offerers[1].email,
                                     "Your trade offer was accepted!",
                                     RenderOffer("offerAcceptedTemplate", offerers[1],
                                                 recipients[1], offeredGames[1], requestedGames[1])),
                   publishEmailEvent(recipients[1].email,
                                     "You accepted a trade offer!",
                                     RenderOffer("offerAcceptedRecipientTemplate", offerers[1],
                                                 recipients[1], offeredGames[1], requestedGames[1])) >>
           ELSE << >>
  ELSE IF updatedOffer.status = "rejected"
    THEN IF Len(offerers) > 0 /\ Len(recipients) > 0
            /\ Len(requestedGames) > 0 /\ Len(offeredGames) > 0
           THEN << publishEmailEvent(offerers[1].email,
                                     "Your trade offer was declined",
                                     RenderOffer("offerRejectedTemplate", offerers[1],
                                                 recipients[1], offeredGames[1], requestedGames[1])),
                   publishEmailEvent(recipients[1].email,
                                     "You declined a trade offer",
                                     RenderOffer("offerRejectedRecipientTemplate", offerers[1],
                                                 recipients[1], offeredGames[1], requestedGames[1])) >>
           ELSE << >>
  ELSE << >>

\* lines 669-699: requireAuth, SELECT of the offer, the checks, new Date()
PatchBegin(r, token, offerId, status) ==
  /\ Accept(r, [NoCall EXCEPT !.route = "PATCH /offers/:id", !.token = token,
                              !.offerId = offerId, !.status = status])
  /\ LET offersRead == SelectById(offers, offerId)
         authenticatedUserId == authenticate(token)
     IN IF authenticatedUserId = NoUser
          THEN Return(r, errorResponse(401, "Unauthorized: Please login first"))
        ELSE IF Len(offersRead) = 0
          THEN Return(r, errorResponse(404, "Trade offer not found"))
        ELSE IF UpdateChecks(offersRead[1], authenticatedUserId, status) # NoResponse
          THEN Return(r, UpdateChecks(offersRead[1], authenticatedUserId, status))
        ELSE /\ loc' = [loc EXCEPT ![r] = [EmptyLoc EXCEPT !.offers = offersRead,
                                                           !.now = clock']]
             /\ pc' = [pc EXCEPT ![r] = "patch_update"]
             /\ resp' = [resp EXCEPT ![r] = NoResponse]
  /\ UNCHANGED <<users, games, offers, nextOfferId>>

\* lines 701-706 and 772-774: the UPDATE; when the row is gone RETURNING yields
\* no row, reading updatedOffer.offerer_id throws and the catch answers 400
PatchUpdate(r) ==
  /\ pc[r] = "patch_update"
  /\ LET offerId == call[r].offerId
         updated == UpdateOfferRows(offers, offerId, call[r].status, loc[r].now)
     IN /\ offers' = updated
        /\ IF offerId \in DOMAIN updated
             THEN /\ loc' = [loc EXCEPT ![r].offer = <<updated[offerId]>>]
                  /\ pc' = [pc EXCEPT ![r] = "patch_offerers"]
                  /\ UNCHANGED resp
             ELSE Return(r, errorResponse(400, "Invalid input"))
  /\ UNCHANGED <<users, games, nextOfferId, clock, call, published>>

\* line 708: SELECT name, email FROM users WHERE id = updatedOffer.offerer_id
PatchSelectOfferers(r) ==
  /\ pc[r] = "patch_offerers"
  /\ loc' = [loc EXCEPT ![r].offerers = SelectById(users, loc[r].offer[1].offerer_id)]
  /\ pc' = [pc EXCEPT ![r] = "patch_recipients"]
  /\ UNCHANGED <<users, games, offers, nextOfferId, clock, call, resp, published>>

\* line 709: SELECT name, email FROM users WHERE id = updatedOffer.recipient_id
PatchSelectRecipients(r) ==
  /\ pc[r] = "patch_recipients"
  /\ loc' = [loc EXCEPT ![r].recipients = SelectById(users, loc[r].offer[1].recipient_id)]
  /\ pc' = [pc EXCEPT ![r] = "patch_requested"]
  /\ UNCHANGED <<users, games, offers, nextOfferId, clock, call, resp, published>>

\* line 710: SELECT name, year FROM games WHERE id = updatedOffer.requested_game_id
PatchSelectRequestedGames(r) ==
  /\ pc[r] = "patch_requested"
  /\ loc' = [loc EXCEPT ![r].requestedGames =
                          SelectById(games, loc[r].offer[1].requested_game_id)]
  /\ pc' = [pc EXCEPT ![r] = "patch_offered"]
  /\ UNCHANGED <<users, games, offers, nextOfferId, clock, call, resp, published>>

\* lines 711-771: SELECT of the offered game, the two publishEmailEvent calls, 200
PatchSelectOfferedGames(r) ==
  /\ pc[r] = "patch_offered"
  /\ LET offeredGames == SelectById(games, loc[r].offer[1].offered_game_id)
     IN published' = [published EXCEPT ![r] =
                           UpdateEvents(loc[r].offer[1], loc[r].offerers, loc[r].recipients,
                                        loc[r].requestedGames, offeredGames)]
  /\ Return(r, JsonResponse(200, formatTradeOfferResponse(loc[r].offer[1])))
  /\ UNCHANGED <<users, games, offers, nextOfferId, clock, call>>

\* ------------------------------------------------------------ GET /offers
\* Mutant of Matches: a row is selected when any supplied parameter fits
Matches_AnySuppliedField(offer, filter) ==
  \/ filter = NoFilter
  \/ filter.status # << >> /\ offer.status = filter.status[1]
  \/ filter.offererId # << >> /\ offer.offerer_id = filter.offererId[1]
  \/ filter.recipientId # << >> /\ offer.recipient_id = filter.recipientId[1]

\* lines 559-561: the WHERE clause; a parameter that is NULL selects every row
Matches(offer, filter) ==
  /\ filter.status = << >> \/ offer.status = filter.status[1]
  /\ filter.offererId = << >> \/ offer.offerer_id = filter.offererId[1]
  /\ filter.recipientId = << >> \/ offer.recipient_id = filter.recipientId[1]

\* Mutant of OrderByCreatedAtDesc: the oldest row comes first
OrderByCreatedAtDesc_Ascending(rows) ==
  {q \in [1..Cardinality(rows) -> rows] :
     \A i \in DOMAIN q, j \in DOMAIN q :
       i < j => (q[i] # q[j] /\ q[i].created_at <= q[j].created_at)}

\* line 562, ORDER BY created_at DESC: the orders the database may return the
\* rows in (rows with the same created_at come in either order)
OrderByCreatedAtDesc(rows) ==
  {q \in [1..Cardinality(rows) -> rows] :
     \A i \in DOMAIN q, j \in DOMAIN q :
       i < j => (q[i] # q[j] /\ q[i].created_at >= q[j].created_at)}

\* Mutant of ListOffers: the rows returned are stamped as read
ListOffers_StampsRows(r, token, statusParam, offererIdParam, recipientIdParam) ==
  /\ Accept(r, [NoCall EXCEPT !.route = "GET /offers", !.token = token,
                              !.filter = [status |-> statusParam,
                                          offererId |-> offererIdParam,
                                          recipientId |-> recipientIdParam]])
  /\ IF authenticate(token) = NoUser
       THEN /\ Return(r, errorResponse(401, "Unauthorized: Please login first"))
            /\ UNCHANGED offers
     ELSE /\ \E rows \in OrderByCreatedAtDesc({offers[o] : o \in {x \in DOMAIN offers :
                                                  Matches(offers[x], call'[r].filter)}}) :
               Return(r, JsonResponse(200,
                 [offers |-> [i \in DOMAIN rows |-> formatTradeOfferResponse(rows[i])]]))
          /\ offers' = [o \in DOMAIN offers |->
                          IF Matches(offers[o], call'[r].filter)
                            THEN [offers[o] EXCEPT !.updated_at = clock']
                          ELSE offers[o]]
  /\ UNCHANGED <<users, games, nextOfferId>>

\* lines 546-571: requireAuth, the SELECT with the three optional filters, and
\* the 200 response with the formatted rows
ListOffers(r, token, statusParam, offererIdParam, recipientIdParam) ==
  /\ Accept(r, [NoCall EXCEPT !.route = "GET /offers", !.token = token,
                              !.filter = [status |-> statusParam,
                                          offererId |-> offererIdParam,
                                          recipientId |-> recipientIdParam]])
  /\ IF authenticate(token) = NoUser
       THEN Return(r, errorResponse(401, "Unauthorized: Please login first"))
     ELSE \E rows \in OrderByCreatedAtDesc({offers[o] : o \in {x \in DOMAIN offers :
                                               Matches(offers[x], call'[r].filter)}}) :
            Return(r, JsonResponse(200,
              [offers |-> [i \in DOMAIN rows |-> formatTradeOfferResponse(rows[i])]]))
  /\ UNCHANGED <<users, games, offers, nextOfferId>>

\* ------------------------------------------------------ kafka-producer.ts
\* line 14: retry.retries of the Kafka client the producer was made from
Retries == 5

\* A JavaScript string is the sequence of its parts: "" is the empty sequence
JsString(content) == <<content>>

\* JSON.stringify of an object whose properties are strings: the opening brace,
\* one <<key, string>> member for each property in order, the closing brace
JSONstringify(event) ==
  << <<"{">>,
     <<"type", JsString(event.type)>>,
     <<"id", JsString(event.id)>>,
     <<"timestamp", JsString(event.timestamp)>>,
     <<"to", JsString(event.to)>>,
     <<"subject", JsString(event.subject)>>,
     <<"body", JsString(event.body)>>,
     <<"}">> >>

\* lines 31-38: the EmailSendEvent built from one call of publishEmailEvent;
\* generateEventId() gives the id and new Date() the timestamp
EmailSendEvent(e, id, timestamp) ==
  [type |-> e.type, id |-> id, timestamp |-> timestamp,
   to |-> e.to, subject |-> e.subject, body |-> e.body]

\* Mutant of ProducerMessage: the message is keyed by its subject
ProducerMessage_KeyedBySubject(event) ==
  [key |-> event.subject, value |-> <<JSONstringify(event)>>]

\* lines 43-50: the message handed to producer.send, keyed by the address
ProducerMessage(event) ==
  [key |-> event.to, value |-> <<JSONstringify(event)>>]

\* lines 40-52: producer.send returns a promise that is still pending
\* (publishEmailEvent does not await it); no attempt has been made yet
ProducerSend(event) ==
  [message |-> ProducerMessage(event), attempts |-> 0, state |-> "pending", error |-> << >>]

\* Mutant of Publish: each send is awaited, the handler goes on after the
\* broker's acknowledgment
Publish_Awaited(r) ==
  sends' = sends \o [i \in 1..Len(published'[r]) |->
                       [ProducerSend(EmailSendEvent(published'[r][i], Len(sends) + i, clock))
                          EXCEPT !.attempts = 1, !.state = "resolved"]]

\* lines 30-56, for every call request r made in the step that ends it
Publish(r) ==
  sends' = sends \o [i \in 1..Len(published'[r]) |->
                       ProducerSend(EmailSendEvent(published'[r][i], Len(sends) + i, clock))]

\* Mutant of ProducerFailed: the producer never gives up
ProducerFailed_NeverGivesUp(s) ==
  [s EXCEPT !.attempts = s.attempts + 1]

\* A request to the broker failed: the Kafka client retries until it has made
\* the first attempt and Retries more; then the promise rejects and the catch
\* of lines 53-55 logs the error
ProducerFailed(s) ==
  IF s.attempts + 1 > Retries
    THEN [s EXCEPT !.attempts = s.attempts + 1, !.state = "rejected",
                   !.error = <<"Failed to publish email event">>]
  ELSE [s EXCEPT !.attempts = s.attempts + 1]

\* Mutant of BrokerAck: the send is acknowledged but the message is lost
BrokerAck_LosesMessage(i) ==
  /\ sends[i].state = "pending"
  /\ topic' = topic
  /\ sends' = [sends EXCEPT ![i] = [@ EXCEPT !.attempts = @ + 1, !.state = "resolved"]]
  /\ UNCHANGED <<serverVars, consumerVars, render>>

\* The broker appends the message of send i to the topic and acknowledges it:
\* the promise resolves
BrokerAck(i) ==
  /\ sends[i].state = "pending"
  /\ topic' = Append(topic, sends[i].message)
  /\ sends' = [sends EXCEPT ![i] = [@ EXCEPT !.attempts = @ + 1, !.state = "resolved"]]
  /\ UNCHANGED <<serverVars, consumerVars, render>>

\* Mutant of AttemptFails: a publication that is given up takes the newest
\* offer back out of the store
AttemptFails_RollsBack(i) ==
  /\ sends[i].state = "pending"
  /\ sends' = [sends EXCEPT ![i] = ProducerFailed(sends[i])]
  /\ offers' = IF sends'[i].state = "rejected"
                 THEN [o \in DOMAIN offers \ {nextOfferId - 1} |-> offers[o]]
               ELSE offers
  /\ UNCHANGED <<users, games, nextOfferId, clock, pc, call, loc, resp, published,
                 topic, consumerVars, render>>

\* An attempt of send i fails (broker unreachable, request timed out)
AttemptFails(i) ==
  /\ sends[i].state = "pending"
  /\ sends' = [sends EXCEPT ![i] = ProducerFailed(sends[i])]
  /\ UNCHANGED <<serverVars, topic, consumerVars, render>>

\* ------------------------------------------------- email-consumer/index.ts
\* A property that is missing reads as undefined, which is falsy like ""
Undefined == << >>

\* A text is the JSON of an object when it is an opening brace, members and a
\* closing brace
IsObjectText(text) ==
  /\ Len(text) >= 2
  /\ text[1] = <<"{">>
  /\ text[Len(text)] = <<"}">>
  /\ \A i \in 2..(Len(text) - 1) : Len(text[i]) = 2

\* line 58, JSON.parse: the object with the members of the text, the value
\* null for the text null, and a SyntaxError for any other text
JSONparse(text) ==
  IF IsObjectText(text)
    THEN [kind |-> "object",
          fields |-> [k \in {text[i][1] : i \in 2..(Len(text) - 1)} |->
                        text[CHOOSE i \in 2..(Len(text) - 1) : text[i][1] = k][2]]]
  ELSE IF text = << <<"null">> >>
    THEN [kind |-> "null", fields |-> << >>]
  ELSE [kind |-> "SyntaxError", fields |-> << >>]

\* event.name for a parsed object
Get(event, name) ==
  IF name \in DOMAIN event.fields THEN event.fields[name] ELSE Undefined

\* Mutant of Truthy: every string counts, the empty one too
Truthy_EmptyToo(string) == Len(string) >= 0

\* a string is truthy when it is not empty
Truthy(string) == Len(string) > 0

\* Mutant of Deliverable: the body is not looked at
Deliverable_BodyNotChecked(event) ==
  /\ Get(event, "type") = JsString("email.send")
  /\ Truthy(Get(event, "to"))
  /\ Truthy(Get(event, "subject"))

\* line 61: event.type === "email.send" && event.to && event.subject && event.body
Deliverable(event) ==
  /\ Get(event, "type") = JsString("email.send")
  /\ Truthy(Get(event, "to"))
  /\ Truthy(Get(event, "subject"))
  /\ Truthy(Get(event, "body"))

LogLine(level, text) == [level |-> level, text |-> text]

\* lines 52-65, up to the await of transporter.sendMail: what one invocation
\* of eachMessage for the message at place index of the topic has logged, the
\* sendEmail call it made, and whether it is over
processMessage(message, index) ==
  IF Len(message.value) = 0
    THEN [index |-> index, log |-> << >>, send |-> << >>, state |-> "resolved"]
  ELSE LET event == JSONparse(message.value[1])
       IN IF event.kind # "object"
            THEN [index |-> index,
                  log |-> <<LogLine("error", "Error processing message")>>,
                  send |-> << >>, state |-> "resolved"]
          ELSE IF Deliverable(event)
            THEN [index |-> index,
                  log |-> <<LogLine("log", "Processing event")>>,
                  send |-> <<[to |-> Get(event, "to"), subject |-> Get(event, "subject"),
                              body |-> Get(event, "body")]>>,
                  state |-> "sending"]
          ELSE [index |-> index,
                log |-> <<LogLine("log", "Processing event"),
                          LogLine("warn", "Received unknown or malformed event")>>,
                send |-> << >>, state |-> "resolved"]

\* Invocations of eachMessage that are followed (redeliveries included)
MaxDeliveries == 3

\* the consumer is inside eachMessage, waiting for transporter.sendMail
Sending == deliveries # << >> /\ deliveries[Len(deliveries)].state = "sending"

\* Mutant of EachMessage: a message one of whose earlier deliveries made a
\* Send is resolved without a second Send
EachMessage_SkipsSeen ==
  /\ ~Sending
  /\ offset < Len(topic)
  /\ Len(deliveries) < MaxDeliveries
  /\ LET d == processMessage(topic[offset + 1], offset + 1)
         seen == \E k \in DOMAIN deliveries :
                   deliveries[k].index = offset + 1 /\ deliveries[k].send # << >>
         e == IF seen THEN [d EXCEPT !.send = << >>, !.state = "resolved"] ELSE d
     IN /\ deliveries' = Append(deliveries, e)
        /\ offset' = IF e.state = "resolved" THEN offset + 1 ELSE offset
  /\ UNCHANGED <<render, serverVars, producerVars, committed>>

\* Mutant of EachMessage: processMessage is not awaited, the next invocation
\* begins while the Send of the last one is under way
EachMessage_NotAwaited ==
  /\ offset < Len(topic)
  /\ Len(deliveries) < MaxDeliveries
  /\ LET d == processMessage(topic[offset + 1], offset + 1)
     IN /\ deliveries' = Append(deliveries, d)
        /\ offset' = IF d.state = "resolved" THEN offset + 1 ELSE offset
  /\ UNCHANGED <<render, serverVars, producerVars, committed>>

\* Mutant of EachMessage: an error of processMessage is thrown out of
\* eachMessage, and the message stays the next one to be handed over
EachMessage_ThrowsOnError ==
  /\ ~Sending
  /\ offset < Len(topic)
  /\ Len(deliveries) < MaxDeliveries
  /\ LET d == processMessage(topic[offset + 1], offset + 1)
         threw == \E j \in DOMAIN d.log : d.log[j].level = "error"
     IN /\ deliveries' = Append(deliveries, d)
        /\ offset' = IF d.state = "resolved" /\ ~threw THEN offset + 1 ELSE offset
  /\ UNCHANGED <<render, serverVars, producerVars, committed>>

\* lines 79-83: the consumer hands the next message of the topic to
\* eachMessage, which runs processMessage up to its first await
EachMessage ==
  /\ ~Sending
  /\ offset < Len(topic)
  /\ Len(deliveries) < MaxDeliveries
  /\ LET d == processMessage(topic[offset + 1], offset + 1)
     IN /\ deliveries' = Append(deliveries, d)
        /\ offset' = IF d.state = "resolved" THEN offset + 1 ELSE offset
  /\ UNCHANGED <<render, serverVars, producerVars, committed>>

\* lines 24-30: transporter.sendMail resolves; sendEmail logs and returns,
\* processMessage and eachMessage return
SendOk ==
  /\ Sending
  /\ deliveries' = [deliveries EXCEPT ![Len(deliveries)] =
                      [@ EXCEPT !.log = Append(@, LogLine("log", "Email sent")),
                                !.state = "resolved"]]
  /\ offset' = offset + 1
  /\ UNCHANGED <<render, serverVars, producerVars, committed>>

\* Mutant of SendFails: the message is left unresolved, to be processed again
SendFails_LeavesUnresolved ==
  /\ Sending
  /\ deliveries' = [deliveries EXCEPT ![Len(deliveries)] =
                      [@ EXCEPT !.log = @ \o <<LogLine("error", "Failed to send email"),
                                                LogLine("error", "Error processing message")>>,
                                !.state = "resolved"]]
  /\ offset' = offset
  /\ UNCHANGED <<render, serverVars, producerVars, committed>>

\* Mutant of SendFails: the consumer tries the Send again
SendFails_SendsAgain ==
  /\ Sending
  /\ Len(deliveries) < MaxDeliveries
  /\ deliveries' = Append([deliveries EXCEPT ![Len(deliveries)] =
                             [@ EXCEPT !.log = @ \o <<LogLine("error", "Failed to send email"),
                                                       LogLine("error", "Error processing message")>>,
                                       !.state = "resolved"]],
                          [deliveries[Len(deliveries)] EXCEPT !.state = "sending"])
  /\ offset' = offset
  /\ UNCHANGED <<render, serverVars, producerVars, committed>>

\* lines 31-34 and 66-68: transporter.sendMail rejects; sendEmail logs and
\* rethrows, the catch of processMessage logs, eachMessage returns normally
SendFails ==
  /\ Sending
  /\ deliveries' = [deliveries EXCEPT ![Len(deliveries)] =
                      [@ EXCEPT !.log = @ \o <<LogLine("error", "Failed to send email"),
                                                LogLine("error", "Error processing message")>>,
                                !.state = "resolved"]]
  /\ offset' = offset + 1
  /\ UNCHANGED <<render, serverVars, producerVars, committed>>

\* consumer.run with the default autoCommit: the offsets of the resolved
\* messages are committed to the group from time to time
Commit ==
  /\ committed < offset
  /\ committed' = offset
  /\ UNCHANGED <<render, serverVars, producerVars, offset, deliveries>>

\* lines 71-72: the process exits (SIGINT, SIGTERM, or a crash) and is started
\* again; the group resumes after the last committed offset
Restart ==
  /\ Sending \/ committed < offset
  /\ offset' = committed
  /\ deliveries' = IF Sending
                     THEN [deliveries EXCEPT ![Len(deliveries)].state = "aborted"]
                   ELSE deliveries
  /\ UNCHANGED <<render, serverVars, producerVars, committed>>

\* ------------------------------------------------------------ specification
\* What a step of the server leaves alone: the producer's promises, the topic
\* and the consumer
ServerOnly == UNCHANGED <<producerVars, consumerVars, render>>

\* The offer routes and the Directory deletes, seen up to the calls of
\* publishEmailEvent: what the producer and the consumer do is not followed
Next ==
  \/ \E r \in Reqs, token \in Tokens, requestedGameId \in GameIds, offeredGameId \in GameIds :
       PostBegin(r, token, requestedGameId, offeredGameId) /\ ServerOnly
  \/ \E r \in Reqs : PostSelectOffered(r) /\ ServerOnly
  \/ \E r \in Reqs : PostInsert(r) /\ ServerOnly
  \/ \E r \in Reqs : PostSelectOfferers(r) /\ ServerOnly
  \/ \E r \in Reqs : PostSelectRecipients(r) /\ ServerOnly
  \/ \E r \in Reqs, token \in Tokens, offerId \in OfferIds, status \in StatusInputs :
       PatchBegin(r, token, offerId, status) /\ ServerOnly
  \/ \E r \in Reqs : PatchUpdate(r) /\ ServerOnly
  \/ \E r \in Reqs : PatchSelectOfferers(r) /\ ServerOnly
  \/ \E r \in Reqs : PatchSelectRecipients(r) /\ ServerOnly
  \/ \E r \in Reqs : PatchSelectRequestedGames(r) /\ ServerOnly
  \/ \E r \in Reqs : PatchSelectOfferedGames(r) /\ ServerOnly
  \/ \E u \in UserIds : DeleteUser(u) /\ ServerOnly
  \/ \E g \in GameIds : DeleteGame(g) /\ ServerOnly

Spec == Init /\ [][Next]_vars

\* ---------------------------------------------- the routes with the producer
\* Sends the producer may hold: a request is taken only if its two fit
MaxSends == 2

HandlersBusy == Cardinality({r \in Reqs : pc[r] \notin {"idle", "done"}})

RoomToPublish == Len(sends) + 2 * HandlersBusy + 2 <= MaxSends

\* The offer routes for one pending offer between Ann and Bob, the deletes
\* that can empty their lookups, and the broker
PublishNext ==
  \/ \E r \in Reqs, token \in {1, 2} :
       RoomToPublish /\ PostBegin(r, token, 2, 1) /\ ServerOnly
  \/ \E r \in Reqs : PostSelectOffered(r) /\ ServerOnly
  \/ \E r \in Reqs : PostInsert(r) /\ ServerOnly
  \/ \E r \in Reqs : PostSelectOfferers(r) /\ ServerOnly
  \/ \E r \in Reqs : PostSelectRecipients(r) /\ Publish(r) /\ UNCHANGED <<topic, consumerVars, render>>
  \/ \E r \in Reqs, status \in {"accepted", "rejected"} :
       RoomToPublish /\ PatchBegin(r, 2, 1, status) /\ ServerOnly
  \/ \E r \in Reqs : PatchUpdate(r) /\ ServerOnly
  \/ \E r \in Reqs : PatchSelectOfferers(r) /\ ServerOnly
  \/ \E r \in Reqs : PatchSelectRecipients(r) /\ ServerOnly
  \/ \E r \in Reqs : PatchSelectRequestedGames(r) /\ ServerOnly
  \/ \E r \in Reqs : PatchSelectOfferedGames(r) /\ Publish(r) /\ UNCHANGED <<topic, consumerVars, render>>
  \/ DeleteUser(1) /\ ServerOnly
  \/ DeleteGame(1) /\ ServerOnly
  \/ \E i \in DOMAIN sends : BrokerAck(i)
  \/ \E i \in DOMAIN sends : AttemptFails(i)

SpecPublish == Init /\ [][PublishNext]_vars

\* ------------------------------------------------------------ the consumer
\* Messages on the topic when the consumer starts
MaxTopic == 2

\* the two events of the creation of offer 1
InitEvents == CreateEvents(<<InitUsers[1]>>, <<InitUsers[2]>>, InitGames[1], InitGames[2])

\* the text with the value of one member replaced
SetMember(text, name, string) ==
  [i \in DOMAIN text |->
     IF Len(text[i]) = 2 /\ text[i][1] = name THEN <<name, string>> ELSE text[i]]

\* the text with one member left out
DropMember(text, name) ==
  LET Kept(token) == ~(Len(token) = 2 /\ token[1] = name)
  IN SelectSeq(text, Kept)

\* Messages a topic can hold: the two events as publishEmailEvent writes them,
\* a message without value, a text cut short, the text null, an event of
\* another type, an event without body, and events with the subject "", the
\* to "" and the body ""
MessageSamples ==
  LET received == ProducerMessage(EmailSendEvent(InitEvents[1], 1, 0))
      confirmation == ProducerMessage(EmailSendEvent(InitEvents[2], 2, 0))
      text == received.value[1]
  IN << received,
        confirmation,
        [received EXCEPT !.value = << >>],
        [received EXCEPT !.value = <<SubSeq(text, 1, 4)>>],
        [received EXCEPT !.value = << << <<"null">> >> >>],
        [received EXCEPT !.value = <<SetMember(text, "type", JsString("user.welcome"))>>],
        [received EXCEPT !.value = <<DropMember(text, "body")>>],
        [received EXCEPT !.value = <<SetMember(text, "subject", << >>)>>],
        [received EXCEPT !.value = <<SetMember(text, "to", << >>)>>],
        [received EXCEPT !.value = <<SetMember(text, "body", << >>)>>] >>

Topics ==
  UNION {{[i \in 1..n |-> MessageSamples[pick[i]]] :
            pick \in [1..n -> DOMAIN MessageSamples]} : n \in 1..MaxTopic}

ConsumerInit ==
  /\ ServerInit
  /\ sends = << >>
  /\ topic \in Topics
  /\ offset = 0
  /\ committed = 0
  /\ deliveries = << >>
  /\ render = NotRendering

ConsumerNext ==
  \/ EachMessage
  \/ SendOk
  \/ SendFails
  \/ Commit
  \/ Restart

SpecConsumer == ConsumerInit /\ [][ConsumerNext]_vars

\* --------------------------------------------- the consumer that keeps running
\* The consumer on a topic of any messages, with a delivery channel that may
\* fail; the process is not stopped
ConsumerLiveNext ==
  \/ EachMessage
  \/ SendOk
  \/ SendFails

\* The consumer's fetch loop hands over the next message when eachMessage has
\* returned, and transporter.sendMail settles, one way or the other
ConsumerFairness ==
  /\ WF_vars(EachMessage)
  /\ WF_vars(SendOk \/ SendFails)

SpecConsumerLive == ConsumerInit /\ [][ConsumerLiveNext]_vars /\ ConsumerFairness

\* ------------------------------------- from the request to the delivery channel
\* A handler that is past its first statement runs its next one
Continue(r) ==
  \/ PostSelectOffered(r) /\ ServerOnly
  \/ PostInsert(r) /\ ServerOnly
  \/ PostSelectOfferers(r) /\ ServerOnly
  \/ PostSelectRecipients(r) /\ Publish(r) /\ UNCHANGED <<topic, consumerVars, render>>
  \/ PatchUpdate(r) /\ ServerOnly
  \/ PatchSelectOfferers(r) /\ ServerOnly
  \/ PatchSelectRecipients(r) /\ ServerOnly
  \/ PatchSelectRequestedGames(r) /\ ServerOnly
  \/ PatchSelectOfferedGames(r) /\ Publish(r) /\ UNCHANGED <<topic, consumerVars, render>>

\* The broker takes every message within the retry budget, the delivery
\* channel accepts every mail and the consumer keeps running (so that the
\* offsets it commits play no part)
LiveNext ==
  \/ \E r \in Reqs : RoomToPublish /\ PostBegin(r, 1, 2, 1) /\ ServerOnly
  \/ \E r \in Reqs, status \in {"accepted", "rejected"} :
       RoomToPublish /\ PatchBegin(r, 2, 1, status) /\ ServerOnly
  \/ \E r \in Reqs : Continue(r)
  \/ DeleteUser(1) /\ ServerOnly
  \/ \E i \in DOMAIN sends : BrokerAck(i)
  \/ \E i \in DOMAIN sends : sends[i].attempts < Retries /\ AttemptFails(i)
  \/ EachMessage
  \/ SendOk

\* An awaited statement completes and its handler goes on; the broker answers
\* a pending send; the consumer's fetch loop hands over the next message; the
\* mail transport answers.  Clients need not send requests.
LiveFairness ==
  /\ \A r \in Reqs : WF_vars(Continue(r))
  /\ \A i \in 1..MaxSends : WF_vars(i \in DOMAIN sends /\ BrokerAck(i))
  /\ WF_vars(EachMessage)
  /\ WF_vars(SendOk)

SpecLive == Init /\ [][LiveNext]_vars /\ LiveFairness

\* ------------------------------------------- the pipeline with its failures
\* As LiveNext, with a broker that may refuse a send to the end, a delivery
\* channel that may fail and a consumer that commits its offsets and may be
\* stopped and started again
PipeNext ==
  \/ \E r \in Reqs : RoomToPublish /\ PostBegin(r, 1, 2, 1) /\ ServerOnly
  \/ \E r \in Reqs, status \in {"accepted", "rejected"} :
       RoomToPublish /\ PatchBegin(r, 2, 1, status) /\ ServerOnly
  \/ \E r \in Reqs : Continue(r)
  \/ \E i \in DOMAIN sends : BrokerAck(i)
  \/ \E i \in DOMAIN sends : AttemptFails(i)
  \/ EachMessage
  \/ SendOk
  \/ SendFails
  \/ Commit
  \/ Restart

SpecPipe == Init /\ [][PipeNext]_vars

\* ------------------------------------------------- the three offer routes
\* A store of three offers: two of the same second, one older; one per status
ListOffersStore ==
  (1 :> [id |-> 1, requested_game_id |-> 2, offered_game_id |-> 1,
         offerer_id |-> 1, recipient_id |-> 2, status |-> "pending",
         created_at |-> 0, updated_at |-> 0])
  @@ (2 :> [id |-> 2, requested_game_id |-> 1, offered_game_id |-> 2,
            offerer_id |-> 2, recipient_id |-> 1, status |-> "accepted",
            created_at |-> 0, updated_at |-> 0])
  @@ (3 :> [id |-> 3, requested_game_id |-> 2, offered_game_id |-> 1,
            offerer_id |-> 1, recipient_id |-> 2, status |-> "rejected",
            created_at |-> -1, updated_at |-> 0])

\* The server starts on an empty store or on the store of three offers
ListInit ==
  /\ users = InitUsers
  /\ games = InitGames
  /\ offers \in {<< >>, ListOffersStore}
  /\ nextOfferId = Cardinality(DOMAIN offers) + 1
  /\ clock = 0
  /\ pc = [r \in Reqs |-> "idle"]
  /\ call = [r \in Reqs |-> NoCall]
  /\ loc = [r \in Reqs |-> EmptyLoc]
  /\ resp = [r \in Reqs |-> NoResponse]
  /\ published = [r \in Reqs |-> <<>>]
  /\ sends = << >>
  /\ topic = << >>
  /\ offset = 0
  /\ committed = 0
  /\ deliveries = << >>
  /\ render = NotRendering

\* Values of the query parameters of GET /offers
StatusParams == {<< >>, <<"pending">>, <<"accepted">>}
UserIdParams == {<< >>, <<1>>, <<2>>}

\* GET /offers, POST /offers between Ann and Bob in both directions,
\* PATCH /offers/:id, with and without a token, and the Directory deletes
ListNext ==
  \/ \E r \in Reqs, token \in {NoUser, 1}, statusParam \in StatusParams,
        offererIdParam \in UserIdParams, recipientIdParam \in UserIdParams :
       ListOffers(r, token, statusParam, offererIdParam, recipientIdParam) /\ ServerOnly
  \/ \E r \in Reqs, token \in {NoUser, 1, 2} :
       PostBegin(r, token, 3 - token, token) /\ ServerOnly
  \/ \E r \in Reqs, token \in {NoUser, 2}, offerId \in {1, 4}, status \in {"accepted", "rejected"} :
       PatchBegin(r, token, offerId, status) /\ ServerOnly
  \/ \E r \in Reqs : Continue(r)
  \/ DeleteUser(1) /\ ServerOnly
  \/ DeleteGame(2) /\ ServerOnly

SpecList == ListInit /\ [][ListNext]_vars

\* ------------------------------------------- POST /offers on a failing database
\* lines 587-618 and 649-651: the awaited query that handler r is about to run
\* rejects (connection lost, statement timed out); the catch block of the
\* handler answers 400 "Invalid input".  A query that rejects has changed no
\* table.
QueryFails(r) ==
  /\ pc[r] \in {"post_offered", "post_insert", "post_offerers", "post_recipients"}
  /\ Return(r, errorResponse(400, "Invalid input"))
  /\ UNCHANGED <<users, games, offers, nextOfferId, clock, call, published>>

\* POST /offers by Ann and Bob for every pair of games, each awaited query
\* after the first either answering or rejecting
FaultNext ==
  \/ \E r \in Reqs, token \in {1, 2}, requestedGameId \in GameIds, offeredGameId \in GameIds :
       PostBegin(r, token, requestedGameId, offeredGameId) /\ ServerOnly
  \/ \E r \in Reqs : PostSelectOffered(r) /\ ServerOnly
  \/ \E r \in Reqs : PostInsert(r) /\ ServerOnly
  \/ \E r \in Reqs : PostSelectOfferers(r) /\ ServerOnly
  \/ \E r \in Reqs : PostSelectRecipients(r) /\ ServerOnly
  \/ \E r \in Reqs : QueryFails(r) /\ ServerOnly

SpecFault == Init /\ [][FaultNext]_vars

\* ------------------------------------------------------ email-templates.ts
\* Text is a sequence of characters.  The templates are text with
\* {{identifier}} placeholders and nothing else of the Handlebars language.
MaxParts == 2          \* parts (runs of text, placeholders) of a template

NameVar == <<"n", "a", "m", "e">>
YearVar == <<"o", "f", "f", "e", "r", "e", "d", "G", "a", "m", "e", "Y", "e", "a", "r">>

\* the placeholder {{name}} as it stands in a template
Mustache(name) == <<"{", "{">> \o name \o <<"}", "}">>

TextPart(chars) == [kind |-> "text", chars |-> chars]
VarPart(name) == [kind |-> "var", chars |-> name]

\* the text of a template written as these parts
RECURSIVE TemplateText(_)
TemplateText(parts) ==
  IF parts = << >> THEN << >>
  ELSE (IF Head(parts).kind = "var" THEN Mustache(Head(parts).chars) ELSE Head(parts).chars)
       \o TemplateText(Tail(parts))

\* a value of a binding: a string or a number
StringValue(chars) == [kind |-> "string", chars |-> chars, n |-> 0]
NumberValue(n) == [kind |-> "number", chars |-> << >>, n |-> n]

Digit(d) == <<"0", "1", "2", "3", "4", "5", "6", "7", "8", "9">>[d + 1]

\* '' + n for a number n >= 0
RECURSIVE NumberToString(_)
NumberToString(n) ==
  IF n < 10 THEN <<Digit(n)>>
  ELSE NumberToString(n \div 10) \o <<Digit(n % 10)>>

ToText(value) ==
  IF value.kind = "number" THEN NumberToString(value.n) ELSE value.chars

\* Handlebars.Utils.escapeExpression: the characters & < > = and the single
\* and double quotes are written as HTML entities (so is the grave accent,
\* which no text of the model contains)
EscapeChar(c) ==
  CASE c = "&" -> <<"&", "a", "m", "p", ";">>
    [] c = "<" -> <<"&", "l", "t", ";">>
    [] c = ">" -> <<"&", "g", "t", ";">>
    [] c = "\"" -> <<"&", "q", "u", "o", "t", ";">>
    [] c = "'" -> <<"&", "#", "x", "2", "7", ";">>
    [] c = "=" -> <<"&", "#", "x", "3", "D", ";">>
    [] OTHER -> <<c>>

RECURSIVE escapeExpression(_)
escapeExpression(chars) ==
  IF chars = << >> THEN << >>
  ELSE EscapeChar(Head(chars)) \o escapeExpression(Tail(chars))

\* what {{name}} evaluates to: the escaped text of the binding; a name
\* without a binding is undefined, which is written as the empty string
MustacheValue(bindings, name) ==
  IF name \in DOMAIN bindings
    THEN escapeExpression(ToText(bindings[name]))
  ELSE << >>

\* index of the first "}}" of t from position i on
RECURSIVE FindClose(_, _)
FindClose(t, i) ==
  IF t[i] = "}" /\ t[i + 1] = "}" THEN i ELSE FindClose(t, i + 1)

\* the compiled template applied to the bindings, from position i on: text is
\* copied, {{name}} is replaced by its value
RECURSIVE RenderFrom(_, _, _)
RenderFrom(t, bindings, i) ==
  IF i > Len(t) THEN << >>
  ELSE IF i < Len(t) /\ t[i] = "{" /\ t[i + 1] = "{"
    THEN LET close == FindClose(t, i + 2)
         IN MustacheValue(bindings, SubSeq(t, i + 2, close - 1))
            \o RenderFrom(t, bindings, close + 2)
  ELSE <<t[i]>> \o RenderFrom(t, bindings, i + 1)

\* Handlebars.compile(template)(bindings)
Render(template, bindings) == RenderFrom(template, bindings, 1)

\* the parts that the templates are written with
Parts ==
  {TextPart(<<"H", "i", " ">>), TextPart(<<" ", "(">>),
   VarPart(NameVar), VarPart(YearVar)}

\* templates of one to MaxParts parts
Templates == UNION {[1..n -> Parts] : n \in 1..MaxParts}

\* the bindings a template is called with: name is absent or a string, the
\* year is absent or a number
BindingsOf(names, years) ==
  {n @@ y : n \in names, y \in years}

Bindings ==
  BindingsOf({<< >>, NameVar :> StringValue(<<"A", "l", "i", "c", "e">>),
              NameVar :> StringValue(<<"R", "&", "D">>)},
             {<< >>, YearVar :> NumberValue(1986), YearVar :> NumberValue(7)})

\* A template has been compiled and is about to be called with bindings
RenderInit ==
  /\ ServerInit
  /\ sends = << >>
  /\ topic = << >>
  /\ offset = 0
  /\ committed = 0
  /\ deliveries = << >>
  /\ render \in {[parts |-> p, template |-> TemplateText(p), bindings |-> b,
                   state |-> "compiled", text |-> << >>] :
                    p \in Templates, b \in Bindings}

\* the call of the compiled template, as in index.ts 624-631
CallTemplate ==
  /\ render.state = "compiled"
  /\ render' = [render EXCEPT !.state = "rendered",
                              !.text = Render(render.template, render.bindings)]
  /\ UNCHANGED <<serverVars, producerVars, consumerVars>>

RenderNext == CallTemplate

SpecRender == RenderInit /\ [][RenderNext]_vars

\* ------------------------------------------------------------------ claims
Success(response) == response.status \in {200, 201}

Subjects(events) ==
  {<<events[i].to, events[i].subject, events[i].body.template>> : i \in DOMAIN events}

\* C1: every change of a stored offer's status is pending->accepted or
\* pending->rejected; an accepted or rejected status never changes again.
C1_StatusOnlyLeavesPending ==
  [][\A o \in DOMAIN offers \cap DOMAIN offers' :
       offers'[o].status # offers[o].status
         => /\ offers[o].status = "pending"
            /\ offers'[o].status \in {"accepted", "rejected"}]_vars

\* C2: of two UpdateStatus calls by the recipient on the same offer, one
\* targeting accepted and one targeting rejected, that ran concurrently, exactly
\* one returns success: the two never both return 200.
C2_ExactlyOneSucceeds ==
  \A r1, r2 \in Reqs :
    ( /\ r1 # r2
      /\ pc[r1] = "done" /\ pc[r2] = "done"
      /\ call[r1].route = "PATCH /offers/:id" /\ call[r2].route = "PATCH /offers/:id"
      /\ call[r1].offerId = call[r2].offerId
      /\ call[r1].status = "accepted" /\ call[r2].status = "rejected" )
    => ~(Success(resp[r1]) /\ Success(resp[r2]))

\* C3: an UpdateStatus by an authenticated actor who is not the stored
\* recipient of the offer returns 403, leaves the offers unchanged and hands no
\* event to the publisher.
C3_NonRecipientForbidden ==
  [][\A r \in Reqs :
       ( /\ call'[r].token \in UserIds
         /\ PatchBegin(r, call'[r].token, call'[r].offerId, call'[r].status)
         /\ call'[r].offerId \in DOMAIN offers
         /\ offers[call'[r].offerId].recipient_id # call'[r].token )
       => /\ pc'[r] = "done"
          /\ resp'[r].status = 403
          /\ offers' = offers
          /\ \A q \in Reqs : published'[q] = IF q = r THEN << >> ELSE published[q]]_vars

C3_Witness ==
  \E r \in Reqs :
    /\ pc[r] = "done"
    /\ call[r].route = "PATCH /offers/:id"
    /\ resp[r].status = 403
    /\ call[r].offerId \in DOMAIN offers
    /\ offers[call[r].offerId].offerer_id = call[r].token
    /\ published[r] = << >>

\* C4: an UpdateStatus by the recipient on an offer whose stored status is
\* accepted or rejected returns 400 "Only pending offers can be updated" for
\* either target status, leaves the offers unchanged and hands no event to the
\* publisher.
C4_TerminalIsInvalidState ==
  [][\A r \in Reqs :
       ( /\ call'[r].token \in UserIds
         /\ PatchBegin(r, call'[r].token, call'[r].offerId, call'[r].status)
         /\ call'[r].offerId \in DOMAIN offers
         /\ offers[call'[r].offerId].recipient_id = call'[r].token
         /\ offers[call'[r].offerId].status \in {"accepted", "rejected"} )
       => /\ pc'[r] = "done"
          /\ resp'[r] = errorResponse(400, "Only pending offers can be updated")
          /\ offers' = offers
          /\ \A q \in Reqs : published'[q] = IF q = r THEN << >> ELSE published[q]]_vars

C4_Witness ==
  \E r \in Reqs :
    /\ pc[r] = "done"
    /\ call[r].route = "PATCH /offers/:id"
    /\ resp[r] = errorResponse(400, "Only pending offers can be updated")
    /\ call[r].offerId \in DOMAIN offers
    /\ offers[call[r].offerId].recipient_id = call[r].token
    /\ offers[call[r].offerId].status = "rejected"
    /\ call[r].status = "accepted"

\* C5 as stated: a CreateOffer whose requested game is owned by the actor
\* always returns 400, stores no offer and hands no event to the publisher.
C5_SelfTradeAlways400 ==
  [][\A r \in Reqs :
       ( /\ PostSelectOffered(r)
         /\ loc[r].requestedGames[1].owner_id = call[r].token )
       => /\ pc'[r] = "done"
          /\ resp'[r].status = 400
          /\ offers' = offers
          /\ published' = published]_vars

\* C5 amended: a CreateOffer whose requested game is owned by the actor always
\* fails, stores no offer and hands no event to the publisher; it returns 400
\* "Cannot create trade offer for your own game" when the offered game is found
\* and owned by the actor, 404 when the offered game is not found and 403 when
\* the offered game is owned by someone else.
C5_SelfTradeFails ==
  [][\A r \in Reqs :
       ( /\ PostSelectOffered(r)
         /\ loc[r].requestedGames[1].owner_id = call[r].token )
       => /\ pc'[r] = "done"
          /\ resp'[r].status =
               IF call[r].offeredGameId \notin DOMAIN games THEN 404
               ELSE IF games[call[r].offeredGameId].owner_id # call[r].token THEN 403
               ELSE 400
          /\ resp'[r].status = 400
               => resp'[r].message = "Cannot create trade offer for your own game"
          /\ offers' = offers
          /\ published' = published]_vars

C5_Witness ==
  \E r \in Reqs :
    /\ pc[r] = "done"
    /\ call[r].route = "POST /offers"
    /\ call[r].requestedGameId \in DOMAIN games
    /\ games[call[r].requestedGameId].owner_id = call[r].token
    /\ resp[r] = errorResponse(400, "Cannot create trade offer for your own game")
    /\ published[r] = << >>

\* C6 as stated: a CreateOffer whose offered game exists and is not owned by
\* the actor always returns 403, whatever the requested game.
C6_NotOwnedAlways403 ==
  [][\A r \in Reqs :
       ( /\ call'[r].token \in UserIds
         /\ PostBegin(r, call'[r].token, call'[r].requestedGameId, call'[r].offeredGameId)
         /\ call'[r].offeredGameId \in DOMAIN games
         /\ games[call'[r].offeredGameId].owner_id # call'[r].token
         /\ pc'[r] = "done" )
       => resp'[r].status = 403]_vars

\* C6 amended: a CreateOffer whose requested game is found and whose offered
\* game is found but not owned by the actor returns 403, stores no offer and
\* hands no event to the publisher (a requested game that is not found is
\* answered 404 first).
C6_NotOwnedForbidden ==
  [][\A r \in Reqs :
       ( /\ PostSelectOffered(r)
         /\ call[r].offeredGameId \in DOMAIN games
         /\ games[call[r].offeredGameId].owner_id # call[r].token )
       => /\ Len(loc[r].requestedGames) = 1
          /\ pc'[r] = "done"
          /\ resp'[r].status = 403
          /\ offers' = offers
          /\ published' = published]_vars

C6_Witness ==
  \E r \in Reqs :
    /\ pc[r] = "done"
    /\ call[r].route = "POST /offers"
    /\ call[r].token \in UserIds
    /\ call[r].requestedGameId \in DOMAIN games
    /\ call[r].offeredGameId \in DOMAIN games
    /\ games[call[r].offeredGameId].owner_id # call[r].token
    /\ resp[r].status = 403
    /\ published[r] = << >>

\* C7 as stated: every CreateOffer or UpdateStatus that returned success handed
\* exactly two events to the publisher, and one that returned an error none.
C7_SuccessHandsTwoEvents ==
  \A r \in Reqs :
    pc[r] = "done"
      => Len(published[r]) = IF Success(resp[r]) THEN 2 ELSE 0

\* C7 amended: a CreateOffer or UpdateStatus that returns success hands exactly
\* two events to the publisher when every lookup it makes after its write
\* (offerer and recipient, and for UpdateStatus both games) returns a row, and
\* none when one of them returns no row; one that returns an error hands none.
C7_TwoEventsOrNone ==
  [][\A r \in Reqs :
       /\ PostSelectRecipients(r)
            => /\ resp'[r].status = 201
               /\ Len(published'[r]) =
                    IF /\ Len(loc[r].offerers) > 0
                       /\ loc[r].offer[1].recipient_id \in DOMAIN users
                      THEN 2 ELSE 0
       /\ PatchSelectOfferedGames(r)
            => /\ resp'[r].status = 200
               /\ Len(published'[r]) =
                    IF /\ Len(loc[r].offerers) > 0
                       /\ Len(loc[r].recipients) > 0
                       /\ Len(loc[r].requestedGames) > 0
                       /\ loc[r].offer[1].offered_game_id \in DOMAIN games
                      THEN 2 ELSE 0
       /\ (pc'[r] = "done" /\ ~Success(resp'[r])) => published'[r] = << >>
       /\ (pc'[r] = "done" /\ Success(resp'[r])) => Len(published'[r]) \in {0, 2}]_vars

C7_Witness ==
  \E r1, r2 \in Reqs :
    /\ pc[r1] = "done" /\ resp[r1].status = 201 /\ Len(published[r1]) = 2
    /\ pc[r2] = "done" /\ resp[r2].status = 200 /\ Len(published[r2]) = 2

\* C8: a successful CreateOffer stores and returns an offer with status
\* pending, the actor as offerer, the owner of the requested game as recipient
\* and the two game ids as given.
C8_CreatedOfferFields ==
  [][\A r \in Reqs :
       /\ (PostInsert(r) /\ pc'[r] # "done")
            => /\ nextOfferId \notin DOMAIN offers
               /\ nextOfferId \in DOMAIN offers'
               /\ offers'[nextOfferId].status = "pending"
               /\ offers'[nextOfferId].offerer_id = call[r].token
               /\ offers'[nextOfferId].recipient_id = games[call[r].requestedGameId].owner_id
               /\ offers'[nextOfferId].requested_game_id = call[r].requestedGameId
               /\ offers'[nextOfferId].offered_game_id = call[r].offeredGameId
               /\ loc'[r].offer = <<offers'[nextOfferId]>>
       /\ PostSelectRecipients(r)
            => /\ resp'[r].status = 201
               /\ resp'[r].body[1].status = "pending"
               /\ resp'[r].body[1].offererId = call[r].token
               /\ resp'[r].body[1].recipientId = InitGames[call[r].requestedGameId].owner_id
               /\ resp'[r].body[1].requestedGameId = call[r].requestedGameId
               /\ resp'[r].body[1].offeredGameId = call[r].offeredGameId
               /\ resp'[r].body[1].id = loc[r].offer[1].id]_vars

C8_Witness ==
  \E r \in Reqs :
    /\ pc[r] = "done"
    /\ call[r].route = "POST /offers"
    /\ resp[r].status = 201
    /\ resp[r].body[1].id \in DOMAIN offers
    /\ offers[resp[r].body[1].id].status = "pending"
    /\ offers[resp[r].body[1].id].offerer_id = call[r].token
    /\ offers[resp[r].body[1].id].recipient_id # call[r].token

\* C9: the two events of a successful CreateOffer are one to the recipient's
\* email with the "offer received" wording and one to the offerer's email with
\* the "offer sent" wording; no event goes to another address.
C9_CreateEventsAddressed ==
  \A r \in Reqs :
    ( /\ pc[r] = "done"
      /\ call[r].route = "POST /offers"
      /\ Success(resp[r])
      /\ published[r] # << >> )
    => /\ Len(published[r]) = 2
       /\ Subjects(published[r]) =
            { << InitUsers[resp[r].body[1].recipientId].email,
                 "You've received a trade offer!", "offerReceivedTemplate" >>,
              << InitUsers[resp[r].body[1].offererId].email,
                 "Your trade offer has been sent!", "offerCreatedConfirmationTemplate" >> }
       /\ \A i \in DOMAIN published[r] : published[r][i].type = "email.send"

C9_Witness ==
  \E r \in Reqs :
    /\ pc[r] = "done"
    /\ call[r].route = "POST /offers"
    /\ resp[r].status = 201
    /\ Len(published[r]) = 2
    /\ published[r][1].to = "bob@videx"
    /\ published[r][2].to = "ann@videx"

\* The events UpdateStatus owes for the status it wrote: to the offerer and to
\* the recipient, with the wording of that status
ExpectedUpdateSubjects(body) ==
  IF body.status = "accepted"
    THEN { << InitUsers[body.offererId].email,
              "Your trade offer was accepted!", "offerAcceptedTemplate" >>,
           << InitUsers[body.recipientId].email,
              "You accepted a trade offer!", "offerAcceptedRecipientTemplate" >> }
    ELSE { << InitUsers[body.offererId].email,
              "Your trade offer was declined", "offerRejectedTemplate" >>,
           << InitUsers[body.recipientId].email,
              "You declined a trade offer", "offerRejectedRecipientTemplate" >> }

\* C10 as stated: a successful UpdateStatus to s returns the offer with status
\* s and has handed over one event to the offerer and one to the recipient,
\* both with the wording of s.
C10_UpdateAlwaysNotifies ==
  \A r \in Reqs :
    ( /\ pc[r] = "done"
      /\ call[r].route = "PATCH /offers/:id"
      /\ Success(resp[r]) )
    => /\ resp[r].body[1].status = call[r].status
       /\ Len(published[r]) = 2
       /\ Subjects(published[r]) = ExpectedUpdateSubjects(resp[r].body[1])

\* C10 amended: a successful UpdateStatus to s returns the offer with status s;
\* when the lookups of offerer, recipient and both games made after the write
\* each return a row it hands over one event to the offerer and one to the
\* recipient, both with the wording of s (accepted wording iff s = accepted,
\* declined wording iff s = rejected), and otherwise it hands over none.
C10_UpdateNotifiesWhenFound ==
  [][\A r \in Reqs :
       PatchSelectOfferedGames(r)
         => /\ resp'[r].status = 200
            /\ resp'[r].body[1].status = call[r].status
            /\ call[r].status \in {"accepted", "rejected"}
            /\ resp'[r].body[1].id = call[r].offerId
            /\ IF /\ Len(loc[r].offerers) > 0
                  /\ Len(loc[r].recipients) > 0
                  /\ Len(loc[r].requestedGames) > 0
                  /\ loc[r].offer[1].offered_game_id \in DOMAIN games
                 THEN /\ Len(published'[r]) = 2
                      /\ Subjects(published'[r]) = ExpectedUpdateSubjects(resp'[r].body[1])
                 ELSE published'[r] = << >>]_vars

C10_Witness ==
  \E r \in Reqs :
    /\ pc[r] = "done"
    /\ call[r].route = "PATCH /offers/:id"
    /\ call[r].status = "rejected"
    /\ resp[r].status = 200
    /\ resp[r].body[1].status = "rejected"
    /\ Len(published[r]) = 2
    /\ published[r][1].to = "ann@videx"
    /\ published[r][1].subject = "Your trade offer was declined"
    /\ published[r][2].to = "bob@videx"

\* C20: in every reachable state, every stored offer has an offerer_id
\* different from its recipient_id.
C20_OffererIsNotRecipient ==
  \A id \in DOMAIN offers : offers[id].offerer_id # offers[id].recipient_id

\* an offer INSERTed by POST /offers is stored, and another POST /offers for
\* the caller's own game was refused with 400
C20_Witness ==
  /\ \E id \in DOMAIN offers : offers[id].created_at > 0
  /\ \E r \in Reqs :
       /\ pc[r] = "done"
       /\ call[r].route = "POST /offers"
       /\ resp[r].status = 400
       /\ resp[r].message = "Cannot create trade offer for your own game"

\* ------------------------------------------------------------------ C11
\* The step of request r that ends a POST /offers with a response
PostResponds(r) ==
  /\ call[r].route = "POST /offers"
  /\ pc[r] # "done"
  /\ pc'[r] = "done"

\* C11: in POST /offers the row is INSERTed before either event is handed to
\* the publisher: the INSERT step stores the row and hands over nothing, events
\* are handed over only by a handler that holds the row its INSERT returned,
\* and neither that step nor any failed attempt of the producer, the one that
\* gives the publication up included, removes or alters a stored offer.
C11_CommitBeforeEmission ==
  [][/\ \A r \in Reqs :
          /\ (call[r].route = "POST /offers" /\ loc[r].offer = << >> /\ loc'[r].offer # << >>)
               => /\ loc'[r].offer[1].id \notin DOMAIN offers
                  /\ loc'[r].offer[1].id \in DOMAIN offers'
                  /\ offers'[loc'[r].offer[1].id] = loc'[r].offer[1]
                  /\ published'[r] = << >>
                  /\ sends' = sends
          /\ (PostResponds(r) /\ sends' # sends)
               => /\ loc[r].offer # << >>
                  /\ resp'[r].status = 201
                  /\ resp'[r].body[1].id = loc[r].offer[1].id
                  /\ offers' = offers
          /\ (PostResponds(r) /\ resp'[r].status = 201) => offers' = offers
     /\ \A i \in DOMAIN sends :
          (sends'[i] # sends[i]) => offers' = offers]_vars

\* a POST /offers answered 201 whose publication was given up after the last
\* retry, with the offer still stored as it was created
C11_Witness ==
  \E r \in Reqs :
    /\ pc[r] = "done"
    /\ call[r].route = "POST /offers"
    /\ resp[r].status = 201
    /\ Len(sends) = 2
    /\ sends[1].state = "rejected"
    /\ resp[r].body[1].id \in DOMAIN offers
    /\ offers[resp[r].body[1].id].status = "pending"
    /\ offers[resp[r].body[1].id].offerer_id = call[r].token

\* ------------------------------------------------------------------ C12
\* C12: publishEmailEvent returns without waiting for the broker: the step in
\* which a handler hands its events over is the step that produces its 201 or
\* 200 response, each of the sends it started is still pending with no attempt
\* made and nothing has reached the topic; and what the broker does with a send
\* afterwards changes no response.
C12_ResponseDoesNotWait ==
  [][/\ \A r \in Reqs :
          (pc[r] # "done" /\ pc'[r] = "done" /\ published'[r] # << >>)
            => /\ resp'[r].status \in {200, 201}
               /\ Len(sends') = Len(sends) + Len(published'[r])
               /\ \A k \in 1..Len(published'[r]) :
                    /\ sends'[Len(sends) + k].state = "pending"
                    /\ sends'[Len(sends) + k].attempts = 0
                    /\ sends'[Len(sends) + k].message.key = published'[r][k].to
               /\ topic' = topic
     /\ \A i \in DOMAIN sends :
          (sends'[i] # sends[i]) => (resp' = resp /\ pc' = pc)]_vars

\* the 200 response of a PATCH /offers/:id exists while its first send is being
\* retried and its second has not been attempted, neither acknowledged
C12_Witness ==
  \E r \in Reqs :
    /\ pc[r] = "done"
    /\ call[r].route = "PATCH /offers/:id"
    /\ resp[r].status = 200
    /\ Len(published[r]) = 2
    /\ Len(sends) = 2
    /\ sends[1].state = "pending"
    /\ sends[1].attempts >= 2
    /\ sends[2].state = "pending"
    /\ sends[2].attempts = 0
    /\ topic = << >>

\* ------------------------------------------------------------------ C14
\* C14: a send is attempted at most Retries + 1 times (the first attempt and
\* at most 5 retries); a send all of whose attempts failed is rejected with the
\* error logged, its message is not on the topic, and from then on it is never
\* attempted again; no attempt, failed or not, changes a stored offer or a
\* response.
C14_BoundedAttemptsThenDropped ==
  [][\A i \in DOMAIN sends' :
       /\ sends'[i].attempts <= Retries + 1
       /\ sends'[i].state = "rejected"
            => /\ sends'[i].attempts = Retries + 1
               /\ sends'[i].error # << >>
               /\ \A k \in DOMAIN topic' : topic'[k] # sends'[i].message
       /\ sends'[i].state # "rejected" => sends'[i].error = << >>
       /\ i \in DOMAIN sends
            => /\ sends[i].state = "rejected" => sends'[i] = sends[i]
               /\ sends'[i] # sends[i] => (offers' = offers /\ resp' = resp)]_vars

\* the first send of a POST /offers was given up after six attempts and its
\* error logged, the second reached the topic at its third attempt, and the
\* offer is stored
C14_Witness ==
  /\ Len(sends) = 2
  /\ sends[1].state = "rejected"
  /\ sends[1].attempts = 6
  /\ sends[1].error # << >>
  /\ sends[2].state = "resolved"
  /\ sends[2].attempts = 3
  /\ topic = <<sends[2].message>>
  /\ \E r \in Reqs :
       /\ call[r].route = "POST /offers"
       /\ resp[r].status = 201
       /\ resp[r].body[1].id \in DOMAIN offers

\* ------------------------------------------------------------------ C15
\* the text has a member of that name / with a non-empty value / with that value
HasMember(text, name) ==
  \E i \in DOMAIN text : Len(text[i]) = 2 /\ text[i][1] = name

HasNonEmpty(text, name) ==
  \E i \in DOMAIN text : Len(text[i]) = 2 /\ text[i][1] = name /\ Len(text[i][2]) > 0

HasValue(text, name, content) ==
  \E i \in DOMAIN text : Len(text[i]) = 2 /\ text[i][1] = name /\ text[i][2] = <<content>>

\* the message is the JSON of an object
IsEventMessage(message) ==
  /\ Len(message.value) = 1
  /\ Len(message.value[1]) >= 2
  /\ message.value[1][1] = <<"{">>
  /\ message.value[1][Len(message.value[1])] = <<"}">>

\* no delivery ever holds more than one Send, and a Send once made stays
AtMostOneSendEach ==
  \A k \in DOMAIN deliveries' :
    /\ Len(deliveries'[k].send) <= 1
    /\ k \in DOMAIN deliveries => deliveries'[k].send = deliveries[k].send

\* C15 as stated: a message that parses as an event of type "email.send" with
\* to, subject and body present gets exactly one Send for that delivery;
\* every other message is logged and discarded with no Send.
C15_SendIffPresentElseLogged ==
  [][/\ AtMostOneSendEach
     /\ EachMessage
          => LET message == topic[offset + 1]
                 d == deliveries'[Len(deliveries')]
             IN IF /\ IsEventMessage(message)
                   /\ HasValue(message.value[1], "type", "email.send")
                   /\ HasMember(message.value[1], "to")
                   /\ HasMember(message.value[1], "subject")
                   /\ HasMember(message.value[1], "body")
                  THEN Len(d.send) = 1
                ELSE /\ d.send = << >>
                     /\ d.state = "resolved"
                     /\ d.log # << >>]_vars

\* C15, amended: a message whose value parses as an object of type
\* "email.send" with non-empty to, subject and body gets exactly one Send, with
\* these three values, for that delivery; every other message gets no Send and
\* is discarded, logged unless it has no value (null), which is skipped
\* without a log line.
C15_SendIffDeliverable ==
  [][/\ AtMostOneSendEach
     /\ EachMessage
          => LET message == topic[offset + 1]
                 d == deliveries'[Len(deliveries')]
             IN /\ d.index = offset + 1
                /\ IF /\ IsEventMessage(message)
                      /\ HasValue(message.value[1], "type", "email.send")
                      /\ HasNonEmpty(message.value[1], "to")
                      /\ HasNonEmpty(message.value[1], "subject")
                      /\ HasNonEmpty(message.value[1], "body")
                     THEN /\ Len(d.send) = 1
                          /\ HasValue(message.value[1], "to", d.send[1].to[1])
                          /\ HasValue(message.value[1], "subject", d.send[1].subject[1])
                          /\ HasValue(message.value[1], "body", d.send[1].body[1])
                   ELSE /\ d.send = << >>
                        /\ d.state = "resolved"
                        /\ offset' = offset + 1
                        /\ (d.log = << >>) <=> (message.value = << >>)]_vars

\* an event with the subject "" was discarded with a warning and no Send, and
\* the event after it got its one Send to bob@videx
C15_Witness ==
  /\ Len(deliveries) = 2
  /\ deliveries[1].index = 1
  /\ deliveries[1].send = << >>
  /\ Len(deliveries[1].log) = 2
  /\ deliveries[1].log[2].level = "warn"
  /\ HasMember(topic[1].value[1], "subject")
  /\ deliveries[2].index = 2
  /\ Len(deliveries[2].send) = 1
  /\ deliveries[2].send[1].to = JsString("bob@videx")
  /\ deliveries[2].state = "resolved"

\* ------------------------------------------------------------------ C16
\* the delivery logged an error
LoggedError(d) ==
  \E j \in DOMAIN d.log : d.log[j].level = "error"

\* C16: when the text of a message does not parse, or the Send of a delivery
\* fails, the failure is logged with console.error and the message counts as
\* consumed: the consumer's offset moves past it, nothing is written back to
\* the topic or handed to the producer (no re-queue, no dead letter), and the
\* delivery keeps its single Send (no retry).
C16_FailureLoggedAndConsumed ==
  [][/\ AtMostOneSendEach
     /\ (EachMessage /\ Len(topic[offset + 1].value) = 1
                     /\ ~IsEventMessage(topic[offset + 1]))
          => LET d == deliveries'[Len(deliveries')]
             IN /\ LoggedError(d)
                /\ d.send = << >>
                /\ d.state = "resolved"
                /\ offset' = offset + 1
                /\ topic' = topic
                /\ sends' = sends
     /\ (Sending /\ Len(deliveries') = Len(deliveries)
                 /\ LoggedError(deliveries'[Len(deliveries)]))
          => LET d == deliveries'[Len(deliveries)]
             IN /\ d.state = "resolved"
                /\ d.send = deliveries[Len(deliveries)].send
                /\ d.index = offset + 1
                /\ offset' = offset + 1
                /\ topic' = topic
                /\ sends' = sends]_vars

\* the Send of the first message failed and was logged, the second message
\* did not parse and was logged, and the consumer is past both
C16_Witness ==
  /\ Len(topic) = 2
  /\ Len(deliveries) = 2
  /\ deliveries[1].index = 1
  /\ Len(deliveries[1].send) = 1
  /\ LoggedError(deliveries[1])
  /\ deliveries[1].state = "resolved"
  /\ deliveries[2].index = 2
  /\ deliveries[2].send = << >>
  /\ LoggedError(deliveries[2])
  /\ offset = 2

\* ------------------------------------------------------------------ C17
\* the value of a member of the text
ValueOf(text, name) ==
  text[CHOOSE i \in DOMAIN text : Len(text[i]) = 2 /\ text[i][1] = name][2]

\* the message is an event the consumer sends
IsSendable(message) ==
  /\ IsEventMessage(message)
  /\ HasValue(message.value[1], "type", "email.send")
  /\ HasNonEmpty(message.value[1], "to")
  /\ HasNonEmpty(message.value[1], "subject")
  /\ HasNonEmpty(message.value[1], "body")

\* C17: the consumer suppresses no duplicate: every delivery of a sendable
\* event, a redelivery after a restart included, makes its own Send with the
\* to, subject and body of the event, so an event delivered n times is sent n
\* times.
C17_EveryDeliverySends ==
  \A i \in DOMAIN topic :
    IsSendable(topic[i])
      => /\ \A k \in DOMAIN deliveries :
              deliveries[k].index = i
                => deliveries[k].send =
                     <<[to |-> ValueOf(topic[i].value[1], "to"),
                        subject |-> ValueOf(topic[i].value[1], "subject"),
                        body |-> ValueOf(topic[i].value[1], "body")]>>
         /\ Cardinality({k \in DOMAIN deliveries :
                           deliveries[k].index = i /\ Len(deliveries[k].send) = 1})
              = Cardinality({k \in DOMAIN deliveries : deliveries[k].index = i})

\* the first event was delivered three times, once cut off by an exit during
\* the Send and once processed but not committed before a restart, and was
\* sent three times
C17_Witness ==
  /\ Len(deliveries) = 3
  /\ \A k \in 1..3 : deliveries[k].index = 1 /\ Len(deliveries[k].send) = 1
  /\ deliveries[1].state = "aborted"
  /\ deliveries[2].state = "resolved"
  /\ deliveries[3].send = deliveries[1].send
  /\ deliveries[3].send[1].to = JsString("bob@videx")

\* ------------------------------------------------------------------ C19
\* sendEmail was called with this address and subject and the mail was taken
Sent(to, subject) ==
  \E k \in DOMAIN deliveries :
    /\ deliveries[k].state = "resolved"
    /\ Len(deliveries[k].send) = 1
    /\ deliveries[k].send[1].to = JsString(to)
    /\ deliveries[k].send[1].subject = JsString(subject)

\* request r is a POST /offers answered 201 for an offer to user u
Created(r, u) ==
  /\ pc[r] = "done"
  /\ call[r].route = "POST /offers"
  /\ resp[r].status = 201
  /\ resp[r].body[1].recipientId = u

\* request r is a PATCH /offers/:id answered 200 that set status s on an offer
\* made by user u
Updated(r, u, s) ==
  /\ pc[r] = "done"
  /\ call[r].route = "PATCH /offers/:id"
  /\ resp[r].status = 200
  /\ resp[r].body[1].offererId = u
  /\ resp[r].body[1].status = s

UpdateSubject(s) ==
  IF s = "accepted" THEN "Your trade offer was accepted!" ELSE "Your trade offer was declined"

\* C19 as stated: with a broker that takes every publish within the retry
\* budget and a delivery channel that succeeds, every POST /offers answered 201
\* is eventually followed by a Send to the recipient's address, and every
\* PATCH /offers/:id answered 200 by a Send of the accepted or declined
\* notification to the offerer's address.
C19_EverySuccessIsSent ==
  \A r \in Reqs : \A u \in UserIds :
    /\ Created(r, u) ~> Sent(InitUsers[u].email, "You've received a trade offer!")
    /\ \A s \in {"accepted", "rejected"} :
         Updated(r, u, s) ~> Sent(InitUsers[u].email, UpdateSubject(s))

\* C19, amended: the same for every successful operation that handed its
\* events to the publisher, which it does when its lookups of the two users
\* (and, for the update, of the two games) each found a row.
C19_EveryPublishedSuccessIsSent ==
  \A r \in Reqs : \A u \in UserIds :
    /\ (Created(r, u) /\ published[r] # << >>)
         ~> Sent(InitUsers[u].email, "You've received a trade offer!")
    /\ \A s \in {"accepted", "rejected"} :
         (Updated(r, u, s) /\ published[r] # << >>)
           ~> Sent(InitUsers[u].email, UpdateSubject(s))

\* a PATCH /offers/:id that rejected Ann's offer was answered 200, its first
\* send went through at the second attempt, and the declined notification was
\* sent to ann@videx
C19_Witness ==
  /\ \E r \in Reqs : Updated(r, 1, "rejected") /\ Len(published[r]) = 2
  /\ sends[1].attempts = 2
  /\ sends[1].state = "resolved"
  /\ Sent("ann@videx", "Your trade offer was declined")

\* ------------------------------------------------------------------ C21
\* request r ends in this step with an error of this code, no offer stored or
\* changed and no event handed to the publisher
FailsWith(r, code) ==
  /\ pc'[r] = "done"
  /\ resp'[r].status = code
  /\ resp'[r].body = NoBody
  /\ offers' = offers
  /\ nextOfferId' = nextOfferId
  /\ \A q \in Reqs : published'[q] = IF q = r THEN << >> ELSE published[q]

\* C21: an authenticated POST /offers answers 404, storing nothing and
\* publishing nothing, when the requested game has no row, and when the
\* offered game has no row; when both exist it answers 403 if the offered game
\* is not the caller's, whoever owns the requested game, and 400 only if the
\* offered game is the caller's and the requested game is too.
C21_NotFoundThenForbiddenThenInvalid ==
  [][\A r \in Reqs :
       /\ ( /\ call'[r].token \in UserIds
            /\ PostBegin(r, call'[r].token, call'[r].requestedGameId, call'[r].offeredGameId)
            /\ call'[r].requestedGameId \notin DOMAIN games )
          => FailsWith(r, 404)
       /\ PostSelectOffered(r)
          => IF call[r].offeredGameId \notin DOMAIN games
               THEN FailsWith(r, 404)
             ELSE IF games[call[r].offeredGameId].owner_id # call[r].token
               THEN FailsWith(r, 403)
             ELSE IF loc[r].requestedGames[1].owner_id = call[r].token
               THEN FailsWith(r, 400)
             ELSE pc'[r] = "post_insert" /\ offers' = offers]_vars

\* user 1 asked for game 1, which is theirs, offering game 2, which is not,
\* and got 403
C21_Witness ==
  \E r \in Reqs :
    /\ pc[r] = "done"
    /\ call[r].route = "POST /offers"
    /\ call[r].token = 1
    /\ call[r].requestedGameId = 1
    /\ call[r].offeredGameId = 2
    /\ resp[r].status = 403

\* ------------------------------------------------------------------ C22
\* C22: an authenticated PATCH /offers/:id answers 404 when the offer has no
\* row; else 403 when the caller is not its recipient, whatever its status;
\* else 400 "Only pending offers can be updated" when it is not pending,
\* whatever the new status; else 400 with the schema's message when the new
\* status is neither accepted nor rejected.  Every PATCH that ends with an
\* error leaves the offers as they were and publishes nothing.
C22_UpdateChecksInOrder ==
  [][\A r \in Reqs :
       /\ ( /\ call'[r].token \in UserIds
            /\ PatchBegin(r, call'[r].token, call'[r].offerId, call'[r].status) )
          => IF call'[r].offerId \notin DOMAIN offers
               THEN FailsWith(r, 404)
             ELSE IF offers[call'[r].offerId].recipient_id # call'[r].token
               THEN FailsWith(r, 403)
             ELSE IF offers[call'[r].offerId].status # "pending"
               THEN /\ FailsWith(r, 400)
                    /\ resp'[r].message = "Only pending offers can be updated"
             ELSE IF call'[r].status \notin {"accepted", "rejected"}
               THEN /\ FailsWith(r, 400)
                    /\ resp'[r].message # "Only pending offers can be updated"
             ELSE pc'[r] = "patch_update" /\ offers' = offers
       /\ ( /\ call[r].route = "PATCH /offers/:id"
            /\ pc[r] # "done"
            /\ pc'[r] = "done"
            /\ resp'[r].status >= 400 )
          => /\ offers' = offers
             /\ published'[r] = << >>]_vars

\* the recipient sent the status pending for an offer that is already
\* accepted and got "Only pending offers can be updated"
C22_Witness ==
  \E r \in Reqs :
    /\ pc[r] = "done"
    /\ call[r].route = "PATCH /offers/:id"
    /\ call[r].status = "pending"
    /\ call[r].offerId \in DOMAIN offers
    /\ offers[call[r].offerId].status = "accepted"
    /\ offers[call[r].offerId].recipient_id = call[r].token
    /\ resp[r] = errorResponse(400, "Only pending offers can be updated")

\* ------------------------------------------------------------------ C25
\* C25: the UPDATE of a PATCH /offers/:id that finds its row changes, in that
\* row, status (to the status sent) and updated_at (to the time the handler
\* took for this update, never before the row's creation) and nothing else;
\* the 200 response shows the row with those values.
C25_OnlyStatusAndUpdatedAt ==
  [][\A r \in Reqs :
       /\ (PatchUpdate(r) /\ call[r].offerId \in DOMAIN offers)
          => LET old == offers[call[r].offerId]
                 new == offers'[call[r].offerId]
             IN /\ new.id = old.id
                /\ new.requested_game_id = old.requested_game_id
                /\ new.offered_game_id = old.offered_game_id
                /\ new.offerer_id = old.offerer_id
                /\ new.recipient_id = old.recipient_id
                /\ new.created_at = old.created_at
                /\ new.status = call[r].status
                /\ new.updated_at = loc[r].now
                /\ new.updated_at > old.created_at
                /\ loc'[r].offer = <<new>>
       /\ PatchSelectOfferedGames(r)
          => /\ resp'[r].status = 200
             /\ resp'[r].body[1] = formatTradeOfferResponse(loc[r].offer[1])
             /\ resp'[r].body[1].updatedAt = loc[r].now]_vars

\* offer 1, created at time 0, was accepted by a PATCH that arrived at time 2:
\* the row and the 200 response carry updated_at 2 and created_at 0
C25_Witness ==
  \E r \in Reqs :
    /\ pc[r] = "done"
    /\ call[r].route = "PATCH /offers/:id"
    /\ resp[r].status = 200
    /\ resp[r].body[1].id = 1
    /\ resp[r].body[1].createdAt = 0
    /\ resp[r].body[1].updatedAt = 2
    /\ 1 \in DOMAIN offers
    /\ offers[1].status = "accepted"
    /\ offers[1].updated_at = 2
    /\ offers[1].created_at = 0
    /\ offers[1].offerer_id = 1
    /\ offers[1].recipient_id = 2

\* ------------------------------------------------------------------ C27
\* C27: every INSERT of a POST /offers, also when another POST /offers for the
\* same two games is under way, stores its row under an id no stored offer
\* has and no earlier INSERT was given, and leaves every stored offer as it
\* was.
C27_EachCreationKeepsItsOwnRow ==
  [][\A r \in Reqs :
       (PostInsert(r) /\ pc'[r] = "post_offerers")
         => LET row == loc'[r].offer[1]
            IN /\ row.id \notin DOMAIN offers
               /\ row.id >= nextOfferId
               /\ nextOfferId' > row.id
               /\ DOMAIN offers' = DOMAIN offers \cup {row.id}
               /\ offers'[row.id] = row
               /\ row.requested_game_id = call[r].requestedGameId
               /\ row.offered_game_id = call[r].offeredGameId
               /\ row.offerer_id = call[r].token
               /\ \A o \in DOMAIN offers : offers'[o] = offers[o]]_vars

\* two POST /offers for the same two games by the same user ran side by side
\* (both took the same time for created_at) and both rows are stored, under
\* the ids their 201 responses show
C27_Witness ==
  /\ \A r \in Reqs :
       /\ pc[r] = "done"
       /\ call[r].route = "POST /offers"
       /\ resp[r].status = 201
       /\ resp[r].body[1].id \in DOMAIN offers
       /\ offers[resp[r].body[1].id].requested_game_id = 2
       /\ offers[resp[r].body[1].id].offered_game_id = 1
       /\ offers[resp[r].body[1].id].created_at = 2
  /\ resp[1].body[1].id # resp[2].body[1].id

\* ------------------------------------------------------------------ C28
\* every stored offer has one of the three statuses
StatusInRange ==
  \A o \in DOMAIN offers : offers[o].status \in {"pending", "accepted", "rejected"}

\* C28: in every reachable state the status of every stored offer is pending,
\* accepted or rejected, and a row that enters the store enters it as pending.
C28_StatusInRangeCreatedPending ==
  /\ StatusInRange
  /\ [][/\ StatusInRange'
        /\ \A o \in DOMAIN offers' \ DOMAIN offers : offers'[o].status = "pending"]_vars

\* an offer created by POST /offers is stored as pending next to an offer
\* that has been rejected
C28_Witness ==
  \E o \in DOMAIN offers, p \in DOMAIN offers :
    /\ offers[o].created_at > 0
    /\ offers[o].status = "pending"
    /\ offers[p].status = "rejected"

\* ------------------------------------------------------------------ C23
\* C23: an authenticated GET /offers answers 200 with a list that holds, once
\* each and in the format of the API, exactly the stored offers whose status,
\* offerer and recipient equal every parameter the URL has (a parameter the
\* URL does not have excludes nothing), and no offer of the list is newer than
\* an offer before it.
C23_ListIsExactAndNewestFirst ==
  [][\A r \in Reqs :
       ( /\ call'[r].token \in UserIds
         /\ ListOffers(r, call'[r].token, call'[r].filter.status,
                       call'[r].filter.offererId, call'[r].filter.recipientId) )
       => LET f == call'[r].filter
              wanted == {o \in DOMAIN offers :
                           /\ f.status # << >> => offers[o].status = f.status[1]
                           /\ f.offererId # << >> => offers[o].offerer_id = f.offererId[1]
                           /\ f.recipientId # << >> => offers[o].recipient_id = f.recipientId[1]}
          IN /\ resp'[r].status = 200
             /\ Len(resp'[r].body) = 1
             /\ LET list == resp'[r].body[1].offers
                IN /\ Len(list) = Cardinality(wanted)
                   /\ {list[i].id : i \in DOMAIN list} = wanted
                   /\ \A i \in DOMAIN list :
                        list[i] = formatTradeOfferResponse(offers[list[i].id])
                   /\ \A i \in DOMAIN list, j \in DOMAIN list :
                        i < j => list[i].createdAt >= list[j].createdAt]_vars

\* the list asked for with recipientId=2 starts with the offer that
\* POST /offers has just stored for user 2 and goes on with the two older ones
C23_Witness ==
  \E r \in Reqs :
    /\ pc[r] = "done"
    /\ call[r].route = "GET /offers"
    /\ call[r].filter = [NoFilter EXCEPT !.recipientId = <<2>>]
    /\ resp[r].status = 200
    /\ Len(resp[r].body[1].offers) = 3
    /\ resp[r].body[1].offers[1].createdAt > 0
    /\ resp[r].body[1].offers[1].recipientId = 2
    /\ resp[r].body[1].offers[3].createdAt < 0

\* ------------------------------------------------------------------ C24
\* C24: a GET /offers, with or without a token and whatever parameters its URL
\* has, leaves the offers, the games, the users and the next offer id as they
\* were, hands no event to the publisher and sends nothing to the broker.
C24_ListChangesNothing ==
  [][\A r \in Reqs :
       ListOffers(r, call'[r].token, call'[r].filter.status,
                  call'[r].filter.offererId, call'[r].filter.recipientId)
       => /\ offers' = offers
          /\ nextOfferId' = nextOfferId
          /\ users' = users
          /\ games' = games
          /\ \A q \in Reqs : published'[q] = IF q = r THEN << >> ELSE published[q]
          /\ sends' = sends
          /\ topic' = topic]_vars

\* a GET /offers?status=pending has listed offers while the events of a
\* finished POST /offers are still the two that the POST published
C24_Witness ==
  \E r \in Reqs, q \in Reqs :
    /\ pc[r] = "done"
    /\ call[r].route = "GET /offers"
    /\ call[r].filter.status = <<"pending">>
    /\ resp[r].status = 200
    /\ Len(resp[r].body[1].offers) >= 1
    /\ pc[q] = "done"
    /\ call[q].route = "POST /offers"
    /\ resp[q].status = 201
    /\ Len(published[q]) = 2
    /\ published[r] = << >>

\* ------------------------------------------------------------------ C26
\* C26: every step that deletes no user and no game, whichever of POST /offers,
\* PATCH /offers/:id and GET /offers it belongs to, keeps every stored offer:
\* each id that was stored is still stored, and its row is still the row of
\* that id between the same users and games.
C26_OffersAreNeverRemoved ==
  [][(users' = users /\ games' = games)
     => \A o \in DOMAIN offers :
          /\ Len(SelectById(offers', o)) = 1
          /\ offers'[o].id = o
          /\ offers'[o].offerer_id = offers[o].offerer_id
          /\ offers'[o].recipient_id = offers[o].recipient_id
          /\ offers'[o].requested_game_id = offers[o].requested_game_id
          /\ offers'[o].offered_game_id = offers[o].offered_game_id]_vars

\* after a POST /offers and a PATCH that rejected offer 1, the store holds
\* the three offers it started with and the new one
C26_Witness ==
  /\ DOMAIN offers = 1..4
  /\ offers[1].status = "rejected"
  /\ offers[4].created_at > 0
  /\ \E r \in Reqs : pc[r] = "done" /\ call[r].route = "PATCH /offers/:id" /\ resp[r].status = 200

\* ------------------------------------------------------------------ C29
\* C29: a POST /offers, a PATCH /offers/:id and a GET /offers without a valid
\* bearer token each end at once with 401, whether or not the game or the
\* offer they name has a row, leaving offers, games and users as they were,
\* handing no event to the publisher and sending nothing to the broker.
C29_NoTokenIs401AndNothingElse ==
  [][\A r \in Reqs :
       ( /\ call'[r].token = NoUser
         /\ \/ PostBegin(r, NoUser, call'[r].requestedGameId, call'[r].offeredGameId)
            \/ PatchBegin(r, NoUser, call'[r].offerId, call'[r].status)
            \/ ListOffers(r, NoUser, call'[r].filter.status,
                          call'[r].filter.offererId, call'[r].filter.recipientId) )
       => /\ FailsWith(r, 401)
          /\ users' = users
          /\ games' = games
          /\ sends' = sends
          /\ topic' = topic]_vars

\* without a token, a POST for a game that has no row and a PATCH of an offer
\* that has no row both got 401, not 404
C29_Witness ==
  \E r \in Reqs, q \in Reqs :
    /\ pc[r] = "done"
    /\ call[r].route = "POST /offers"
    /\ call[r].token = NoUser
    /\ call[r].requestedGameId \notin DOMAIN games
    /\ resp[r].status = 401
    /\ pc[q] = "done"
    /\ call[q].route = "PATCH /offers/:id"
    /\ call[q].token = NoUser
    /\ call[q].offerId \notin DOMAIN offers
    /\ resp[q].status = 401

\* ------------------------------------------------------------------ C30
\* C30: the text a template renders to is the template's text with every
\* placeholder that has a binding replaced by the bound value (the digits of
\* a number, the characters of a string) and every placeholder that has no
\* binding left as it is written, {{name}}.
C30_BoundSubstitutedUnboundVerbatim ==
  render.state = "rendered"
  => render.text =
       TemplateText([i \in DOMAIN render.parts |->
                       IF render.parts[i].kind = "var"
                          /\ render.parts[i].chars \in DOMAIN render.bindings
                         THEN TextPart(ToText(render.bindings[render.parts[i].chars]))
                       ELSE render.parts[i]])

\* ------------------------------------------------------------------ C31
\* the value of a message is the JSON of an object with exactly the six
\* members of an EmailSendEvent, of type email.send
IsEmailSendText(value) ==
  /\ Len(value) = 1
  /\ JSONparse(value[1]).kind = "object"
  /\ DOMAIN JSONparse(value[1]).fields = {"type", "id", "timestamp", "to", "subject", "body"}
  /\ Get(JSONparse(value[1]), "type") = JsString("email.send")

\* C31: each message that a handler's publishEmailEvent(to, subject, body)
\* hands to the producer is keyed by to and its value is the JSON of an
\* email.send event whose to, subject and body are the arguments of the call;
\* every message on the topic is one of those messages, with its key equal to
\* its own to member; and every invocation of the consumer for a message of
\* the topic calls sendEmail with exactly the to, subject and body of that
\* message.
C31_PublishConsumeRoundTrip ==
  /\ [](/\ \A i \in DOMAIN topic :
             /\ \E k \in DOMAIN sends : sends[k].message = topic[i]
             /\ IsEmailSendText(topic[i].value)
             /\ JsString(topic[i].key) = Get(JSONparse(topic[i].value[1]), "to")
        /\ \A d \in DOMAIN deliveries :
             LET event == JSONparse(topic[deliveries[d].index].value[1])
             IN deliveries[d].send = <<[to |-> Get(event, "to"),
                                        subject |-> Get(event, "subject"),
                                        body |-> Get(event, "body")]>>)
  /\ [][\A r \in Reqs :
         (pc[r] # "done" /\ pc'[r] = "done")
         => /\ Len(sends') = Len(sends) + Len(published'[r])
            /\ \A j \in DOMAIN published'[r] :
                 LET message == sends'[Len(sends) + j].message
                     event == JSONparse(message.value[1])
                 IN /\ IsEmailSendText(message.value)
                    /\ message.key = published'[r][j].to
                    /\ Get(event, "to") = JsString(published'[r][j].to)
                    /\ Get(event, "subject") = JsString(published'[r][j].subject)
                    /\ Get(event, "body") = JsString(published'[r][j].body)]_vars

\* the mail for Bob about the new offer has been sent: the message keyed
\* bob@videx is on the topic and the consumer's Send to bob@videx, with the
\* subject of the event, has succeeded
C31_Witness ==
  \E d \in DOMAIN deliveries :
    /\ deliveries[d].state = "resolved"
    /\ Len(deliveries[d].send) = 1
    /\ deliveries[d].send[1].to = JsString("bob@videx")
    /\ deliveries[d].send[1].subject = JsString("You've received a trade offer!")
    /\ topic[deliveries[d].index].key = "bob@videx"
    /\ \E r \in Reqs : Len(published[r]) = 2 /\ published[r][1].to = "bob@videx"

\* ------------------------------------------------------------------ C32
\* the events that PATCH requests have handed to the publisher for offer o
\* with this subject, as (request, place) pairs
StatusEvents(o, subject) ==
  {<<r, j>> \in Reqs \X (1..2) :
     /\ call[r].route = "PATCH /offers/:id"
     /\ call[r].offerId = o
     /\ j \in DOMAIN published[r]
     /\ published[r][j].subject = subject}

\* C32: for each offer, the PATCH requests together hand at most one
\* notification for the offerer to the publisher, so never an accepted and a
\* declined one for the same offer, and at most one for the recipient.
C32_AtMostOneNotificationPair ==
  \A o \in OfferIds :
    /\ Cardinality(StatusEvents(o, "Your trade offer was accepted!")
                   \cup StatusEvents(o, "Your trade offer was declined")) <= 1
    /\ Cardinality(StatusEvents(o, "You accepted a trade offer!")
                   \cup StatusEvents(o, "You declined a trade offer")) <= 1

\* ------------------------------------------------------------------ C33
\* C33: when a POST /offers ends with an error response, the row that this
\* request inserted, if it inserted one, is not in the store.
C33_ErrorMeansNothingStored ==
  [][\A r \in Reqs :
       ( /\ call[r].route = "POST /offers"
         /\ pc[r] # "done"
         /\ pc'[r] = "done"
         /\ resp'[r].status >= 400 )
       => \/ Len(loc[r].offer) = 0
          \/ loc[r].offer[1].id \notin DOMAIN offers']_vars

\* ------------------------------------------------------------------ C34
\* C34: at every moment each request has handed either no event or two
\* events to the publisher, and the two are handed over in one and the same
\* step, the one that ends a POST /offers with 201 or a PATCH /offers/:id
\* with 200.
C34_ZeroOrTwoEventsTogether ==
  /\ [](\A r \in Reqs : Len(published[r]) \in {0, 2})
  /\ [][\A r \in Reqs :
         (published'[r] # published[r] /\ published'[r] # << >>)
         => /\ published[r] = << >>
            /\ Len(published'[r]) = 2
            /\ pc[r] \in {"post_recipients", "patch_offered"}
            /\ pc'[r] = "done"
            /\ resp'[r].status = IF call[r].route = "POST /offers" THEN 201 ELSE 200]_vars

\* a PATCH that declined the offer was answered 200 with its two events handed
\* over, and a POST that ended with an error handed over none
C34_Witness ==
  \E r \in Reqs, q \in Reqs :
    /\ pc[r] = "done"
    /\ call[r].route = "PATCH /offers/:id"
    /\ resp[r].status = 200
    /\ Len(published[r]) = 2
    /\ published[r][2].subject = "You declined a trade offer"
    /\ pc[q] = "done"
    /\ call[q].route = "POST /offers"
    /\ resp[q].status = 403
    /\ published[q] = << >>

\* ------------------------------------------------------------------ C35
\* C35: no step of a PATCH /offers/:id changes a game, a user or an offer
\* other than the one the request names.
C35_OtherOffersAndGamesUntouched ==
  [][\A r \in Reqs :
       ( \/ PatchBegin(r, call'[r].token, call'[r].offerId, call'[r].status)
         \/ PatchUpdate(r)
         \/ PatchSelectOfferers(r)
         \/ PatchSelectRecipients(r)
         \/ PatchSelectRequestedGames(r)
         \/ PatchSelectOfferedGames(r) )
       => /\ games' = games
          /\ users' = users
          /\ DOMAIN offers' = DOMAIN offers
          /\ \A o \in DOMAIN offers \ {call'[r].offerId} : offers'[o] = offers[o]]_vars

\* offer 1 (game 1 for game 2) has been accepted while offer 2 (game 2 for
\* game 1) is accepted as well and a third offer of game 1 for game 2 is
\* stored; game 1 is still user 1's and game 2 still user 2's
C35_Witness ==
  /\ \E r \in Reqs : /\ pc[r] = "done"
                     /\ call[r].route = "PATCH /offers/:id"
                     /\ call[r].offerId = 1
                     /\ resp[r].status = 200
  /\ DOMAIN offers = 1..4
  /\ offers[1].status = "accepted"
  /\ offers[2].status = "accepted"
  /\ offers[4].status = "pending"
  /\ {offers[1].requested_game_id, offers[1].offered_game_id}
       = {offers[2].requested_game_id, offers[2].offered_game_id}
  /\ games[1].owner_id = 1
  /\ games[2].owner_id = 2

\* ------------------------------------------------------------------ C36
\* the call of producer.send that publishEmailEvent made with this to,
\* subject and body
PublishedBySend(k, send) ==
  /\ send.to = JsString(sends[k].message.key)
  /\ send.to = Get(JSONparse(sends[k].message.value[1]), "to")
  /\ send.subject = Get(JSONparse(sends[k].message.value[1]), "subject")
  /\ send.body = Get(JSONparse(sends[k].message.value[1]), "body")

\* C36: every sendEmail call of the consumer has the to, subject and body of
\* a message that a publishEmailEvent call handed to the producer; an
\* invocation of the consumer makes at most one sendEmail call, a new
\* invocation begins only when the broker's next message is handed to
\* eachMessage, and an invocation that has begun never gains a call.
C36_SendsOnlyWhatWasPublished ==
  /\ [](\A d \in DOMAIN deliveries :
          /\ Len(deliveries[d].send) <= 1
          /\ deliveries[d].send # << >>
               => \E k \in DOMAIN sends : PublishedBySend(k, deliveries[d].send[1]))
  /\ [][/\ Len(deliveries') >= Len(deliveries)
        /\ \A d \in DOMAIN deliveries : deliveries'[d].send = deliveries[d].send
        /\ Len(deliveries') > Len(deliveries)
             => /\ EachMessage
                /\ deliveries'[Len(deliveries')].index \in DOMAIN topic]_vars

\* the consumer was stopped inside the Send of a message and, started again,
\* was handed the message a second time: two Sends for two deliveries of the
\* one event
C36_Witness ==
  \E d \in DOMAIN deliveries, e \in DOMAIN deliveries :
    /\ d < e
    /\ deliveries[d].index = deliveries[e].index
    /\ deliveries[d].state = "aborted"
    /\ deliveries[e].state = "resolved"
    /\ Len(deliveries[d].send) = 1
    /\ deliveries[e].send = deliveries[d].send
    /\ \E k \in DOMAIN sends : PublishedBySend(k, deliveries[e].send[1])

\* ------------------------------------------------------------------ C37
\* sendEmail has been called for the message at place i of the topic and the
\* invocation is over
Processed(i) ==
  \E d \in DOMAIN deliveries :
    /\ deliveries[d].index = i
    /\ Len(deliveries[d].send) = 1
    /\ deliveries[d].state = "resolved"

\* C37: whatever stands before it on the topic (a message without value, a
\* text that does not parse, an event that is not deliverable, an event whose
\* Send fails), every deliverable event of the topic is eventually handed to
\* sendEmail and its invocation ends, provided the fetch loop keeps handing
\* over messages and the mail transport answers.
C37_LaterMessagesStillSent ==
  \A i \in 1..MaxTopic :
    (i \in DOMAIN topic /\ IsSendable(topic[i])) ~> Processed(i)

\* the first message did not parse and was logged as an error, the second
\* was sent
C37_Witness ==
  /\ Len(deliveries) = 2
  /\ deliveries[1].index = 1
  /\ deliveries[1].send = << >>
  /\ LoggedError(deliveries[1])
  /\ deliveries[2].index = 2
  /\ Len(deliveries[2].send) = 1
  /\ deliveries[2].state = "resolved"
  /\ ~LoggedError(deliveries[2])

\* ------------------------------------------------------------------ C38
\* invocations d and e made a Send each, for messages of the same key
SendsOfOneKey(d, e) ==
  /\ Len(deliveries[d].send) = 1
  /\ Len(deliveries[e].send) = 1
  /\ topic[deliveries[d].index].key = topic[deliveries[e].index].key

\* C38 as stated: an invocation of the consumer begins only when the Send of
\* every earlier one has completed or failed, and of two Sends for messages of
\* the same key the earlier Send is for the message that is not later on the
\* topic.
C38_SendsInTopicOrder ==
  /\ [](\A d \in DOMAIN deliveries, e \in DOMAIN deliveries :
          (d < e /\ SendsOfOneKey(d, e)) => deliveries[d].index <= deliveries[e].index)
  /\ [][Len(deliveries') > Len(deliveries)
        => \A d \in DOMAIN deliveries : deliveries[d].state = "resolved"]_vars

\* C38 amended: an invocation begins only when the Send of every earlier one
\* has completed, has failed or was cut off by the exit of the process; the
\* message handed over is the one after the consumer's offset, which moves
\* back only when the process is started again; and the first Send for a
\* deliverable message comes after a Send for every deliverable message that
\* stands before it on the topic.
C38_OneAtATimeFirstSendsInOrder ==
  /\ [](\A e \in DOMAIN deliveries :
          /\ e < Len(deliveries) => deliveries[e].state \in {"resolved", "aborted"}
          /\ Len(deliveries[e].send) = 1
               => \A i \in 1..(deliveries[e].index - 1) :
                    IsSendable(topic[i])
                    => \E d \in 1..(e - 1) : /\ deliveries[d].index = i
                                             /\ Len(deliveries[d].send) = 1)
  /\ [][/\ Len(deliveries') > Len(deliveries)
           => /\ \A d \in DOMAIN deliveries : deliveries[d].state \in {"resolved", "aborted"}
              /\ deliveries'[Len(deliveries')].index = offset + 1
        /\ offset' < offset => Restart
        /\ offset' >= offset => offset' \in {offset, offset + 1}]_vars

\* two messages of one key were sent in topic order; the process was then
\* started again before its offsets were committed and the first message was
\* sent a second time
C38_Witness ==
  /\ Len(deliveries) = 3
  /\ deliveries[1].index = 1
  /\ deliveries[2].index = 2
  /\ deliveries[3].index = 1
  /\ SendsOfOneKey(1, 2)
  /\ SendsOfOneKey(2, 3)
  /\ deliveries[1].state = "resolved"
  /\ deliveries[2].state = "resolved"

\* ------------------------------------------------------------------ C39
\* the text has a member of that name whose value is the empty string
HasEmpty(text, name) ==
  \E i \in DOMAIN text : Len(text[i]) = 2 /\ text[i][1] = name /\ text[i][2] = << >>

\* C39: when the consumer is handed a message whose value is null, or an
\* email.send event whose to, subject or body is "", the invocation calls
\* sendEmail not at all, logs no error and returns, and the consumer moves on
\* to the next message.
C39_EmptyFieldOrNullValueNotSent ==
  [][( /\ EachMessage
       /\ \/ Len(topic[offset + 1].value) = 0
          \/ /\ IsEventMessage(topic[offset + 1])
             /\ HasValue(topic[offset + 1].value[1], "type", "email.send")
             /\ \E name \in {"to", "subject", "body"} :
                  HasEmpty(topic[offset + 1].value[1], name) )
     => /\ deliveries'[Len(deliveries')].send = << >>
        /\ deliveries'[Len(deliveries')].state = "resolved"
        /\ ~LoggedError(deliveries'[Len(deliveries')])
        /\ offset' = offset + 1]_vars

\* a message without value and then an event whose to is "" were handed over:
\* no Send, no error, the second with a warning, and the consumer is past
\* both
C39_Witness ==
  /\ Len(topic) = 2
  /\ Len(topic[1].value) = 0
  /\ Len(topic[2].value) = 1
  /\ HasEmpty(topic[2].value[1], "to")
  /\ Len(deliveries) = 2
  /\ offset = 2
  /\ deliveries[1].send = << >> /\ deliveries[1].log = << >>
  /\ deliveries[2].send = << >> /\ ~LoggedError(deliveries[2])
  /\ Len(deliveries[2].log) = 2
  /\ deliveries[2].log[2].level = "warn"

====
